---- MODULE Spec2Model ----
(***************************************************************************)
(* Model of the Fusion v14 execution orchestrator                          *)
(* (ChatGPT_10_Files/core/execution_orchestrator_v14.py) and of the        *)
(* FusionContext it writes to (ChatGPT_Upload_v14/core/fusion_context.py). *)
(*                                                                         *)
(* Conventions                                                             *)
(*  - a Python dict is a function whose DOMAIN is the set of keys present; *)
(*  - text is a sequence of string atoms, "" is <<>>, concatenation is \o; *)
(*  - an optional value is <<>> (None) or <<v>>;                           *)
(*  - a confidence is an integer number of tenths (0.8 is 8);              *)
(*  - result dicts live in `heap` and are passed around by reference (an   *)
(*    index into heap), as Python passes dict objects;                     *)
(*  - the orchestrator is async: the code between two awaits of an agent's *)
(*    run coroutine is one atomic step.  An action is either the start of  *)
(*    a call up to its first agent invocation, or the completion of the    *)
(*    awaited agent followed by the rest of the handler up to the next     *)
(*    agent invocation or to the end of the call;                          *)
(*  - time is a logical clock `now`, relative to the start of the session, *)
(*    that advances by one while an awaited agent runs; a pipeline result  *)
(*    is kept without its times.                                           *)
(***************************************************************************)
EXTENDS Integers, Sequences, FiniteSets, TLC

\* ---------------------------------------------------------------- bounds
MaxImported    == 1   \* import_memory is offered while memory is shorter
MaxSeq         == 2   \* longest pipeline agent sequence
MaxFallbacks   == 2   \* longest fallback pattern list

\* ------------------------------------------------------ program constants
ConfidenceBar     == 8   \* `if confidence >= 0.8`
DefaultConfidence == 8   \* result.get('confidence', 0.8)
PatternDefaultConfidence == 0   \* pattern_result.get('confidence', 0)
FailedConfidence  == 0   \* confidence=0.0 of a failed interaction

\* ------------------------------------------------------------- universes
AgentNames   == {"a1", "vp_design"}
ToolNames    == {"t1"}
PatternNames == {"p1", "p2"}
Prompt       == <<"q">>

None    == <<>>
Some(v) == <<v>>

\* dict helpers: d.get(k, dflt) and the truthiness of d.get(k)
Get(d, k, dflt) == IF k \in DOMAIN d THEN d[k] ELSE dflt
Truthy(d, k)    == k \in DOMAIN d /\ DOMAIN d[k] # {}
\* d[key] = value
SetKey(d, key, value) ==
  [k \in DOMAIN d \cup {key} |-> IF k = key THEN value ELSE d[k]]

\* The results an agent's run coroutine may hand back (agents are plug-ins;
\* each call builds a fresh dict).
AgentResults ==
  { [output |-> <<"o1">>, confidence |-> 5],
    [output |-> <<"o2">>, confidence |-> 5],
    [output |-> <<"o2">>, enhanced_output |-> <<"e2">>, confidence |-> 9,
       shared_state |-> [k1 |-> "v1"]],
    [output |-> <<>>, enhanced_output |-> <<"e1">>, confidence |-> 3,
       shared_state |-> [k1 |-> "v2", k2 |-> "v1"]],
    [output |-> <<"o1">>],
    [output |-> <<"o3">>, confidence |-> 12],
    [error |-> <<"boom">>, confidence |-> 0] }

\* The documents offered to import_memory: a well-formed one, and one whose
\* second entry lacks fields.
ImportDocs ==
  { [memory |-> << [timestamp |-> 0, agent_name |-> "a1",
                    input_prompt |-> <<"old">>,
                    output |-> [output |-> <<"o0">>, confidence |-> 7],
                    confidence |-> 7, tools_used |-> <<>>,
                    execution_time |-> 1, pattern_applied |-> None] >>,
     pattern_memory |-> [p1 |-> [uses |-> 1]],
     shared_state |-> [k1 |-> "v0", k0 |-> "v0"]],
    [memory |-> << [timestamp |-> 0, agent_name |-> "a1",
                    input_prompt |-> <<"old">>,
                    output |-> [output |-> <<"o0">>, confidence |-> 7],
                    confidence |-> 7, tools_used |-> <<>>,
                    execution_time |-> 1, pattern_applied |-> None],
                   [agent_name |-> "a1"] >>,
     shared_state |-> [k1 |-> "v0"]] }

\* The pattern definitions offered to register_pattern.
PatternInputs ==
  { <<"p1", [type |-> "output_transformation",
             transformation |-> [add_context |-> <<"ctx">>,
                                 enhance_format |-> <<"markdown">>]]>>,
    <<"p2", [type |-> "prompt_enhancement", agent |-> "a1",
             enhancement |-> <<"enh">>, confidence_threshold |-> 9]>>,
    <<"p2", [agent |-> "a1", fallback_patterns |-> <<"p2", "p1">>]>> }

RECURSIVE SeqsUpTo(_, _)
SeqsUpTo(S, n) ==
  IF n = 0 THEN { <<>> }
  ELSE LET shorter == SeqsUpTo(S, n - 1)
       IN  shorter \cup { Append(s, x) : s \in shorter, x \in S }

\* "t2" is a tool name that is never registered
ToolArgs         == { None, <<"t1">>, <<"t2", "t1">> }
SequenceArgs     == { None } \cup { Some(s) : s \in SeqsUpTo(AgentNames, MaxSeq) }
ToolsPerAgentArgs == { None, Some([a1 |-> <<"t1">>]) }
FallbackArgs     == { None } \cup { Some(s) : s \in SeqsUpTo(PatternNames, MaxFallbacks) }

VARIABLES
  agents,        \* ExecutionOrchestrator.agents: names in registration order
  tools,         \* ExecutionOrchestrator.tools (registered names)
  patterns,      \* ExecutionOrchestrator.patterns: name -> pattern dict
  memory,        \* FusionContext.memory: sequence of MemoryEntry
  pattern_memory,\* FusionContext.pattern_memory: name -> dict
  shared_state,  \* FusionContext.shared_state: key -> value
  heap,          \* the dict objects created so far
  pc,            \* "idle" | "await" (an agent is running) | "done"
  call,          \* arguments and locals of the call in progress / last call
  ea,            \* frame of the execute_agent suspended at `await agent.run`
  ret,           \* how the last call ended: returned value or raised exception
  invoked,       \* history: agent invocations of the current call
  outcomes,      \* history: how each of those invocations ended
  mem0,          \* history: memory when the current call started
  ss0,           \* history: shared_state when the current call started
  now,           \* the clock (time.time(), datetime.now())
  chain_memory,  \* ExecutionChainOrchestrator.memory
  agent_memory,  \* AgentMemory.memory (memory_system.py)
  registry,      \* the PatternRegistry of patterns/pattern_registry.py
  usage_log,     \* history: per pattern name, the record_pattern_usage calls
                 \* made and how many of them preceded its last registration
  answer,        \* the last query made of a component, with what it returned
  scorecard,     \* the file memory/agent_scorecard.json of the dispatcher
  export_file,   \* the file export_memory writes and import_memory reads
  memory_file,   \* the file agent_memory.json of AgentMemory
  tasks          \* the execute_agent coroutines running side by side

\* the files, and the coroutines of the concurrent calls
auxvars == <<scorecard, export_file, memory_file, tasks>>

\* state of the components beside the orchestrator and its context
libvars == <<chain_memory, agent_memory, registry, usage_log, answer, auxvars>>

vars == <<agents, tools, patterns, memory, pattern_memory, shared_state, heap,
          pc, call, ea, ret, invoked, outcomes, mem0, ss0, now, libvars>>

\* --------------------------------------------------------------- exceptions
NotRegistered(name) == [type |-> "ValueError", agent |-> name, at |-> 0]
AgentError(name, n) == [type |-> "AgentError", agent |-> name, at |-> n]
StrOf(e)            == <<e.type, e.agent>>

\* ------------------------------------------------------------ FusionContext
store_interaction(mem, timestamp, agent_name, input_prompt, output, confidence, tools_used, execution_time, pattern_applied) ==
  Append(mem, [timestamp       |-> timestamp,
               agent_name      |-> agent_name,
               input_prompt    |-> input_prompt,
               output          |-> output,
               confidence      |-> confidence,
               tools_used      |-> tools_used,
               execution_time  |-> execution_time,
               pattern_applied |-> pattern_applied])

\* variant: a key already present keeps its value (setdefault)
MergeSharedState_keep(ss, upd) ==
  [k \in DOMAIN ss \cup DOMAIN upd |-> IF k \in DOMAIN ss THEN ss[k] ELSE upd[k]]

\* set_shared_state for every key of upd (also dict.update in import_memory)
MergeSharedState(ss, upd) ==
  [k \in DOMAIN ss \cup DOMAIN upd |-> IF k \in DOMAIN upd THEN upd[k] ELSE ss[k]]

NoFrame == [agent_name |-> "", input_prompt |-> <<>>, available_tools |-> <<>>,
            start_time |-> 0]

\* import_memory: the entries of the document are appended one by one; an
\* entry MemoryEntry(**entry_data) rejects ends the import in the handler,
\* before pattern_memory and shared_state are updated.
EntryKeys == {"timestamp", "agent_name", "input_prompt", "output",
              "confidence", "tools_used", "execution_time", "pattern_applied"}
RequiredEntryKeys == EntryKeys \ {"pattern_applied"}

\* variant: an entry that is rejected is skipped and the import goes on
RECURSIVE ImportEntries_skip(_, _, _)
ImportEntries_skip(doc_memory, mem, hp) ==
  IF doc_memory = <<>> THEN [memory |-> mem, heap |-> hp, ok |-> TRUE]
  ELSE IF ~ (/\ RequiredEntryKeys \subseteq DOMAIN Head(doc_memory)
             /\ DOMAIN Head(doc_memory) \subseteq EntryKeys)
  THEN ImportEntries_skip(Tail(doc_memory), mem, hp)
  ELSE LET d == Head(doc_memory)
       IN  ImportEntries_skip(Tail(doc_memory),
                              Append(mem, [k \in EntryKeys |->
                                             IF k = "output" THEN Len(hp) + 1
                                             ELSE Get(d, k, None)]),
                              Append(hp, d.output))

RECURSIVE ImportEntries(_, _, _)
ImportEntries(doc_memory, mem, hp) ==
  IF doc_memory = <<>> THEN [memory |-> mem, heap |-> hp, ok |-> TRUE]
  ELSE IF ~ (/\ RequiredEntryKeys \subseteq DOMAIN Head(doc_memory)
             /\ DOMAIN Head(doc_memory) \subseteq EntryKeys)
  THEN [memory |-> mem, heap |-> hp, ok |-> FALSE]
  ELSE LET d == Head(doc_memory)
       IN  ImportEntries(Tail(doc_memory),
                         Append(mem, [k \in EntryKeys |->
                                        IF k = "output" THEN Len(hp) + 1
                                        ELSE Get(d, k, None)]),
                         Append(hp, d.output))

\* lines 142-151 on the document read from the file
ImportInto(doc) ==
  LET r == ImportEntries(Get(doc, "memory", <<>>), memory, heap)
  IN  /\ memory' = r.memory
      /\ heap' = r.heap
      /\ pattern_memory' = IF r.ok
            THEN MergeSharedState(pattern_memory, Get(doc, "pattern_memory", <<>>))
            ELSE pattern_memory
      /\ shared_state' = IF r.ok
            THEN MergeSharedState(shared_state, Get(doc, "shared_state", <<>>))
            ELSE shared_state

import_memory(doc) ==
  /\ pc = "idle"
  /\ Len(memory) < MaxImported
  /\ ImportInto(doc)
  /\ UNCHANGED <<agents, tools, patterns, pc, call, ea, ret, invoked,
                 outcomes, mem0, ss0, now, libvars>>

\* clear_memory, after which the caller holds no result of the session
clear_memory ==
  /\ pc = "done"
  /\ memory' = <<>>
  /\ pattern_memory' = <<>>
  /\ shared_state' = <<>>
  /\ heap' = <<>>
  /\ pc' = "idle"
  /\ call' = [op |-> "none"]
  /\ ea' = NoFrame
  /\ ret' = [kind |-> "none"]
  /\ invoked' = <<>>
  /\ outcomes' = <<>>
  /\ mem0' = <<>>
  /\ ss0' = <<>>
  /\ now' = 0
  /\ UNCHANGED <<agents, tools, patterns, libvars>>

\* ------------------------------------------------------------ execute_agent
\* variant: the registration check is missing
IsRegistered_any(agent_name) == TRUE

IsRegistered(agent_name) == \E i \in 1..Len(agents) : agents[i] = agent_name

RECURSIVE Dedup(_)
Dedup(s) ==
  IF s = <<>> THEN <<>>
  ELSE LET front == Dedup(SubSeq(s, 1, Len(s) - 1))
           last  == s[Len(s)]
       IN  IF \E i \in 1..Len(front) : front[i] = last THEN front
           ELSE Append(front, last)

\* variant: every requested tool is handed over
AvailableTools_all(requested) == Dedup(requested)

\* list(available_tools.keys()): the requested tools that are registered
AvailableTools(requested) ==
  Dedup(SelectSeq(requested, LAMBDA t : t \in tools))

Frame(agent_name, input_prompt, requested) ==
  [agent_name      |-> agent_name,
   input_prompt    |-> input_prompt,
   available_tools |-> AvailableTools(requested),
   start_time      |-> now]

SuccessConfidence(result) == Get(result, "confidence", DefaultConfidence)

Returned(v) == [kind |-> "return", value |-> v]
Raised(e)   == [kind |-> "raise", exc |-> e]

\* ========================================================= pattern registry
\* PatternRegistry of patterns/pattern_registry.py.  A registry value keeps
\* the names in dict order (`order`) and the four dicts of the class.  Of a
\* pattern's data the model keeps type, agent, keywords, fallback_patterns
\* and the metadata category.
MaxUsages == 3   \* record_pattern_usage calls offered in one run

BuiltinPatterns ==
  << <<"design_enhancement",
       [type |-> "prompt_enhancement", agent |-> "vp_design",
        fallback_patterns |-> <<"ux_audit", "trust_building">>,
        metadata |-> [category |-> "design"]]>>,
     <<"ux_audit",
       [type |-> "tool_enhancement", agent |-> "vp_design",
        fallback_patterns |-> <<"design_enhancement">>,
        metadata |-> [category |-> "ux"]]>>,
     <<"trust_building",
       [type |-> "tool_enhancement", agent |-> "vp_design",
        fallback_patterns |-> <<"design_enhancement">>,
        metadata |-> [category |-> "trust"]]>>,
     <<"comprehensive_evaluation",
       [type |-> "agent_enhancement", agent |-> "evaluator",
        fallback_patterns |-> <<"basic_evaluation">>,
        metadata |-> [category |-> "evaluation"]]>>,
     <<"basic_evaluation",
       [type |-> "agent_enhancement", agent |-> "evaluator",
        fallback_patterns |-> <<>>,
        metadata |-> [category |-> "evaluation"]]>> >>

\* The pattern definitions offered to PatternRegistry.register_pattern.
RegistryInputs ==
  { <<"p1", [type |-> "prompt_enhancement", agent |-> "vp_design",
             keywords |-> << <<"d", "e", "s", "i", "g", "n">> >>]>>,
    <<"p2", [type |-> "prompt_enhancement", agent |-> "vp_design",
             keywords |-> << <<"d", "e", "s", "i", "g", "n">>,
                             <<"a", "c", "c", "e", "s", "s", "i", "b", "i", "l", "i", "t", "y">> >>,
             fallback_patterns |-> <<"p1">>]>>,
    <<"p1", [type |-> "prompt_enhancement", agent |-> "vp_design",
             fallback_patterns |-> <<"p2">>,
             metadata |-> [category |-> "custom"]]>> }

UsageNames       == {"p1"}
UsageConfidences == {2, 9}

\* a float is kept exactly, as a fraction num/den
Fraction(num, den) == [num |-> num, den |-> den]

\* the zeroed statistics of lines 116-121 and 200-205
NoStats ==
  [usage_count |-> 0, success_count |-> 0, last_used |-> None,
   avg_confidence |-> Fraction(0, 1)]

EmptyRegistry ==
  [order |-> <<>>, patterns |-> <<>>, pattern_metadata |-> <<>>,
   fallback_patterns |-> <<>>, pattern_usage_stats |-> <<>>]

\* PatternRegistry.register_pattern
RegisterPattern(r, name, pattern_data) ==
  [order |-> IF name \in DOMAIN r.patterns THEN r.order
             ELSE Append(r.order, name),
   patterns |-> SetKey(r.patterns, name, pattern_data),
   pattern_metadata |->
     SetKey(r.pattern_metadata, name, Get(pattern_data, "metadata", <<>>)),
   pattern_usage_stats |-> SetKey(r.pattern_usage_stats, name, NoStats),
   fallback_patterns |->
     SetKey(r.fallback_patterns, name,
            Get(pattern_data, "fallback_patterns", <<>>))]

RECURSIVE RegisterAll(_, _)
RegisterAll(r, ps) ==
  IF ps = <<>> THEN r
  ELSE RegisterAll(RegisterPattern(r, Head(ps)[1], Head(ps)[2]), Tail(ps))

\* PatternRegistry(): __init__ and _initialize_default_patterns
NewRegistry == RegisterAll(EmptyRegistry, BuiltinPatterns)

NoAnswer == [op |-> "none"]

\* a file that does not exist
NoFile == None

\* the concurrent calls: asyncio.gather of two execute_agent coroutines
Tasks  == {1, 2}
NoTask == [state |-> "new"]
NoUsage  == [calls |-> <<>>, since |-> 0]

Init ==
  /\ agents = <<>>
  /\ tools = {}
  /\ patterns = <<>>
  /\ memory = <<>>
  /\ pattern_memory = <<>>
  /\ shared_state = <<>>
  /\ heap = <<>>
  /\ pc = "idle"
  /\ call = [op |-> "none"]
  /\ ea = NoFrame
  /\ ret = [kind |-> "none"]
  /\ invoked = <<>>
  /\ outcomes = <<>>
  /\ mem0 = <<>>
  /\ ss0 = <<>>
  /\ now = 0
  /\ chain_memory = <<>>
  /\ agent_memory = <<>>
  /\ registry = NewRegistry
  /\ usage_log = [n \in UsageNames |-> NoUsage]
  /\ answer = NoAnswer
  /\ scorecard = NoFile
  /\ export_file = NoFile
  /\ memory_file = NoFile
  /\ tasks = [t \in Tasks |-> NoTask]

\* A session: set-up (registrations, import) while idle, one request, and
\* clear_memory before the next one.
Quiet == pc = "idle"

\* ------------------------------------------------------------- registration
register_agent(name) ==
  /\ Quiet
  /\ agents' = IF \E i \in 1..Len(agents) : agents[i] = name
                THEN agents ELSE Append(agents, name)
  /\ UNCHANGED <<tools, patterns, memory, pattern_memory, shared_state, heap, pc, call, ea,
                 ret, invoked, outcomes, mem0, ss0, now, libvars>>

register_tool(name) ==
  /\ Quiet
  /\ tools' = tools \cup {name}
  /\ UNCHANGED <<agents, patterns, memory, pattern_memory, shared_state, heap, pc, call, ea,
                 ret, invoked, outcomes, mem0, ss0, now, libvars>>

register_pattern(name, pattern_data) ==
  /\ Quiet
  /\ patterns' = [n \in DOMAIN patterns \cup {name} |->
                    IF n = name THEN pattern_data ELSE patterns[n]]
  /\ UNCHANGED <<agents, tools, memory, pattern_memory, shared_state, heap, pc, call, ea,
                 ret, invoked, outcomes, mem0, ss0, now, libvars>>

\* ------------------------------------------------------------ execute_agent
\* The call up to `await agent.run(...)`: lines 46-66.
execute_agent(agent_name, input_prompt, requested) ==
  /\ Quiet
  /\ call' = [op |-> "execute_agent", agent_name |-> agent_name,
              input_prompt |-> input_prompt, tools |-> requested]
  /\ mem0' = memory
  /\ ss0' = shared_state
  /\ outcomes' = <<>>
  /\ IF IsRegistered(agent_name)
     THEN /\ pc' = "await"
          /\ ea' = Frame(agent_name, input_prompt, requested)
          /\ invoked' = <<ea'>>
          /\ ret' = [kind |-> "none"]
     ELSE /\ pc' = "done"
          /\ ea' = NoFrame
          /\ invoked' = <<>>
          /\ ret' = Raised(NotRegistered(agent_name))
  /\ UNCHANGED <<agents, tools, patterns, memory, pattern_memory,
                 shared_state, heap, now, libvars>>

\* What the suspended execute_agent does when the agent's coroutine ends
\* (lines 70-99): `out` is [kind |-> "return", result |-> dict] or
\* [kind |-> "raise"].  The dict (or the error payload) becomes a new heap
\* object, one MemoryEntry is stored, and execute_agent returns the dict or
\* re-raises.
NewRef == Len(heap) + 1

\* the clock when the awaited agent has finished
Later == now + 1

AgentException == AgentError(ea.agent_name, NewRef)

NewObject(out) ==
  IF out.kind = "return" THEN out.result ELSE [error |-> StrOf(AgentException)]

\* variant: the failed interaction is logged like a successful one
EntryConfidence_default(out) ==
  Get(NewObject(out), "confidence", DefaultConfidence)

EntryConfidence(out) ==
  IF out.kind = "return" THEN SuccessConfidence(out.result) ELSE FailedConfidence

AfterAgentHeap(out) == Append(heap, NewObject(out))

AfterAgentMemory(out) ==
  store_interaction(memory, Later, ea.agent_name, ea.input_prompt, NewRef,
                    EntryConfidence(out), ea.available_tools,
                    Later - ea.start_time, None)

AgentOutcome(out) ==
  IF out.kind = "return" THEN Returned(NewRef) ELSE Raised(AgentException)

\* history record of the invocation: the dict as the agent returned it
OutcomeRecord(out) ==
  IF out.kind = "return"
  THEN [kind |-> "return", value |-> NewRef, result |-> out.result]
  ELSE Raised(AgentException)

ResumeExecuteAgent(out) ==
  /\ call.op = "execute_agent"
  /\ heap' = AfterAgentHeap(out)
  /\ memory' = AfterAgentMemory(out)
  /\ outcomes' = Append(outcomes, OutcomeRecord(out))
  /\ ret' = AgentOutcome(out)
  /\ pc' = "done"
  /\ ea' = NoFrame
  /\ now' = Later
  /\ UNCHANGED <<agents, tools, patterns, pattern_memory, shared_state, call,
                 invoked, mem0, ss0, libvars>>

\* --------------------------------------------------------- execute_pipeline
\* variant: `if not agent_sequence`
DefaultSequence_falsy(agent_sequence) ==
  IF agent_sequence = None \/ agent_sequence[1] = <<>> THEN agents
  ELSE agent_sequence[1]

\* if agent_sequence is None: agent_sequence = list(self.agents.keys())
DefaultSequence(agent_sequence) ==
  IF agent_sequence = None THEN agents ELSE agent_sequence[1]

DefaultToolsPerAgent(tools_per_agent) ==
  IF tools_per_agent = None THEN <<>> ELSE tools_per_agent[1]

\* variant: enhanced_output is preferred to output
NextInput_enhancedFirst(result, current_input) ==
  IF Truthy(result, "enhanced_output") THEN result.enhanced_output
  ELSE IF Truthy(result, "output") THEN result.output
  ELSE current_input

\* lines 139-142
NextInput(result, current_input) ==
  IF Truthy(result, "output") THEN result.output
  ELSE IF Truthy(result, "enhanced_output") THEN result.enhanced_output
  ELSE current_input

\* lines 145-147
AfterStageSharedState(ss, result) ==
  IF Truthy(result, "shared_state")
  THEN MergeSharedState(ss, result.shared_state) ELSE ss

PipelineSuccess(seq, results, current_input) ==
  [agent_sequence |-> seq, results |-> results,
   final_output |-> Some(current_input)]

\* variant: the failure result lacks the error field
PipelineFailure_noerror(seq, results, e) ==
  [agent_sequence |-> seq, results |-> results, final_output |-> None]

PipelineFailure(seq, results, e) ==
  [agent_sequence |-> seq, results |-> results, final_output |-> None,
   error |-> StrOf(e)]

\* The loop from stage i up to the next agent invocation or to the end.
PipelineAdvance(c, i, current_input, results) ==
  LET seq == c.agent_sequence
      c1  == [c EXCEPT !.i = i, !.current_input = current_input,
                       !.results = results]
  IN  IF i > Len(seq)
      THEN [pc |-> "done", call |-> c1, ea |-> NoFrame,
            ret |-> Returned(PipelineSuccess(seq, results, current_input))]
      ELSE IF ~IsRegistered(seq[i])
      THEN [pc |-> "done", call |-> c1, ea |-> NoFrame,
            ret |-> Returned(PipelineFailure(seq, results,
                                             NotRegistered(seq[i])))]
      ELSE [pc |-> "await", call |-> c1,
            ea |-> Frame(seq[i], current_input,
                         Get(c.tools_per_agent, seq[i], <<>>)),
            ret |-> [kind |-> "none"]]

Goto(nxt) ==
  /\ pc' = nxt.pc
  /\ call' = nxt.call
  /\ ea' = nxt.ea
  /\ ret' = nxt.ret

execute_pipeline(input_prompt, agent_sequence, tools_per_agent) ==
  /\ Quiet
  /\ LET c == [op |-> "execute_pipeline", input_prompt |-> input_prompt,
               sequence_arg |-> agent_sequence,
               agent_sequence |-> DefaultSequence(agent_sequence),
               tools_per_agent |-> DefaultToolsPerAgent(tools_per_agent),
               i |-> 1, current_input |-> input_prompt, results |-> <<>>]
         nxt == PipelineAdvance(c, 1, input_prompt, <<>>)
     IN  /\ Goto(nxt)
         /\ invoked' = IF nxt.pc = "await" THEN <<nxt.ea>> ELSE <<>>
  /\ mem0' = memory
  /\ ss0' = shared_state
  /\ outcomes' = <<>>
  /\ UNCHANGED <<agents, tools, patterns, memory, pattern_memory,
                 shared_state, heap, now, libvars>>

\* variant: the result of a name's first occurrence is kept (setdefault)
StoreResult_keepFirst(results, agent_name, result) ==
  [n \in DOMAIN results \cup {agent_name} |->
     IF n \in DOMAIN results THEN results[n] ELSE result]

\* pipeline_result["results"][agent_name] = result (line 136)
StoreResult(results, agent_name, result) ==
  [n \in DOMAIN results \cup {agent_name} |->
     IF n = agent_name THEN result ELSE results[n]]

ResumePipeline(out) ==
  /\ call.op = "execute_pipeline"
  /\ heap' = AfterAgentHeap(out)
  /\ memory' = AfterAgentMemory(out)
  /\ outcomes' = Append(outcomes, OutcomeRecord(out))
  /\ IF out.kind = "return"
     THEN LET result   == out.result
              results1 == StoreResult(call.results, ea.agent_name, NewRef)
              nxt == PipelineAdvance(call, call.i + 1,
                                     NextInput(result, call.current_input),
                                     results1)
          IN  /\ Goto(nxt)
              /\ shared_state' = AfterStageSharedState(shared_state, result)
              /\ invoked' = IF nxt.pc = "await" THEN Append(invoked, nxt.ea)
                            ELSE invoked
     ELSE /\ pc' = "done"
          /\ ea' = NoFrame
          /\ ret' = Returned(PipelineFailure(call.agent_sequence, call.results,
                                             AgentException))
          /\ UNCHANGED <<call, shared_state, invoked>>
  /\ now' = Later
  /\ UNCHANGED <<agents, tools, patterns, pattern_memory, mem0, ss0, libvars>>

\* ------------------------------------------- execute_with_pattern_fallback
FallbackList(fallback_patterns) ==
  IF fallback_patterns = None THEN <<>> ELSE fallback_patterns[1]

PatternAgent(pattern) == Get(pattern, "agent", "vp_design")

\* _enhance_prompt_with_pattern
enhance_prompt_with_pattern(input_prompt, pattern) ==
  IF Truthy(pattern, "enhancement")
  THEN input_prompt \o <<"\n\n">> \o pattern.enhancement
  ELSE input_prompt

\* _format_output
format_output(output, format_instructions) ==
  IF format_instructions = <<"markdown">>
  THEN <<"# Enhanced Output\n\n">> \o output
  ELSE IF format_instructions = <<"structured">>
  THEN <<"## Analysis\n\n">> \o output
         \o <<"\n\n## Recommendations\n\nBased on the analysis above...">>
  ELSE output

\* _transform_output_with_pattern: rewrites the dict it is given, in place
transform_output_with_pattern(result, pattern) ==
  LET transformation == Get(pattern, "transformation", <<>>)
      r1 == IF Truthy(transformation, "add_context")
            THEN SetKey(result, "context", transformation.add_context)
            ELSE result
  IN  IF Truthy(transformation, "enhance_format")
      THEN SetKey(r1, "formatted_output",
                  format_output(Get(r1, "output", <<>>),
                                transformation.enhance_format))
      ELSE r1

\* The prompt _apply_pattern hands to the pattern's agent (lines 214-221)
PatternPrompt(pattern, input_prompt) ==
  IF Get(pattern, "type", "") = "prompt_enhancement"
  THEN enhance_prompt_with_pattern(input_prompt, pattern)
  ELSE input_prompt

\* The dict _apply_pattern ends up with, given the one its agent returned
PatternResult(pattern, result) ==
  IF Get(pattern, "type", "") = "output_transformation"
  THEN transform_output_with_pattern(result, pattern)
  ELSE result

\* variant: the pattern entry is logged under the bare pattern name
PatternEntryName_plain(pattern_name) == pattern_name

\* agent_name=f"pattern_{pattern_name}"
PatternEntryName(pattern_name) == "pattern_" \o pattern_name

\* variant: `>=`
Improves_ge(pattern_result, confidence) ==
  Get(pattern_result, "confidence", PatternDefaultConfidence) >= confidence

\* if pattern_result.get('confidence', 0) > confidence
Improves(pattern_result, confidence) ==
  Get(pattern_result, "confidence", PatternDefaultConfidence) > confidence

\* variant: the last fallback's exception is the one raised
Reraised_last(caught, last) == last

\* The bare `raise` that ends the recovery pass (line 204): `caught` is the
\* exception the outer handler caught, `last` the one of the last fallback
\* that failed.
Reraised(caught, last) == caught

\* variant: an unregistered name ends the pass
ScanLow_stop(fps, j) ==
  IF j > Len(fps) \/ fps[j] \notin DOMAIN patterns
  THEN [kind |-> "exhausted"]
  ELSE IF ~IsRegistered(PatternAgent(patterns[fps[j]]))
  THEN [kind |-> "raise",
        exc |-> NotRegistered(PatternAgent(patterns[fps[j]]))]
  ELSE [kind |-> "await", idx |-> j]

\* Low-confidence pass (lines 182-187) from list position j: the next
\* fallback that invokes an agent, or the exception _apply_pattern raises
\* before invoking one, or the end of the list.
RECURSIVE ScanLow(_, _)
ScanLow(fps, j) ==
  IF j > Len(fps) THEN [kind |-> "exhausted"]
  ELSE IF fps[j] \notin DOMAIN patterns THEN ScanLow(fps, j + 1)
  ELSE IF ~IsRegistered(PatternAgent(patterns[fps[j]]))
  THEN [kind |-> "raise",
        exc |-> NotRegistered(PatternAgent(patterns[fps[j]]))]
  ELSE [kind |-> "await", idx |-> j]

\* Recovery pass (lines 196-202) from list position j: a fallback whose
\* _apply_pattern raises is logged and skipped.
RECURSIVE ScanRecover(_, _, _)
ScanRecover(fps, j, last) ==
  IF j > Len(fps) THEN [kind |-> "exhausted", last |-> last]
  ELSE IF fps[j] \notin DOMAIN patterns THEN ScanRecover(fps, j + 1, last)
  ELSE IF ~IsRegistered(PatternAgent(patterns[fps[j]]))
  THEN ScanRecover(fps, j + 1,
                   NotRegistered(PatternAgent(patterns[fps[j]])))
  ELSE [kind |-> "await", idx |-> j]

PatternFrame(c, j) ==
  LET pattern == patterns[c.fallback_patterns[j]]
  IN  Frame(PatternAgent(pattern), PatternPrompt(pattern, c.input_prompt), None)

\* variant: a fallback that failed in the recovery pass is tried again
ContinueRecover_again(c, j, caught, last) ==
  LET s  == ScanRecover(c.fallback_patterns, IF j > 1 THEN j - 1 ELSE j, last)
      c1 == [c EXCEPT !.phase = "recover", !.exc = Some(caught)]
  IN  IF s.kind = "exhausted"
      THEN [pc |-> "done", call |-> c1, ea |-> NoFrame,
            ret |-> Raised(caught)]
      ELSE [pc |-> "await", call |-> [c1 EXCEPT !.idx = s.idx],
            ea |-> PatternFrame(c, s.idx), ret |-> [kind |-> "none"]]

ContinueRecover(c, j, caught, last) ==
  LET s  == ScanRecover(c.fallback_patterns, j, last)
      c1 == [c EXCEPT !.phase = "recover", !.exc = Some(caught)]
  IN  IF s.kind = "exhausted"
      THEN [pc |-> "done", call |-> c1, ea |-> NoFrame,
            ret |-> Raised(Reraised(caught, s.last))]
      ELSE [pc |-> "await", call |-> [c1 EXCEPT !.idx = s.idx],
            ea |-> PatternFrame(c, s.idx), ret |-> [kind |-> "none"]]

ContinueLow(c, j) ==
  LET s  == ScanLow(c.fallback_patterns, j)
      c1 == [c EXCEPT !.phase = "low"]
  IN  IF s.kind = "exhausted"
      THEN [pc |-> "done", call |-> c1, ea |-> NoFrame,
            ret |-> Returned(c.result)]
      ELSE IF s.kind = "raise"
      THEN ContinueRecover(c1, 1, s.exc, s.exc)
      ELSE [pc |-> "await", call |-> [c1 EXCEPT !.idx = s.idx],
            ea |-> PatternFrame(c, s.idx), ret |-> [kind |-> "none"]]

execute_with_pattern_fallback(input_prompt, primary_agent, fallback_patterns) ==
  /\ Quiet
  /\ LET c == [op |-> "execute_with_pattern_fallback",
               input_prompt |-> input_prompt,
               primary_agent |-> primary_agent,
               fallback_patterns |-> FallbackList(fallback_patterns),
               phase |-> "primary", idx |-> 0, result |-> 0,
               confidence |-> 0, exc |-> None]
         nxt == IF IsRegistered(primary_agent)
                THEN [pc |-> "await", call |-> c,
                      ea |-> Frame(primary_agent, input_prompt, None),
                      ret |-> [kind |-> "none"]]
                ELSE ContinueRecover(c, 1, NotRegistered(primary_agent),
                                     NotRegistered(primary_agent))
     IN  /\ Goto(nxt)
         /\ invoked' = IF nxt.pc = "await" THEN <<nxt.ea>> ELSE <<>>
  /\ mem0' = memory
  /\ ss0' = shared_state
  /\ outcomes' = <<>>
  /\ UNCHANGED <<agents, tools, patterns, memory, pattern_memory,
                 shared_state, heap, now, libvars>>

\* variant: the bar is the first fallback pattern's confidence_threshold
MeetsBar_ofPattern(confidence) ==
  LET fps == call.fallback_patterns
  IN  confidence >= (IF fps # <<>> /\ fps[1] \in DOMAIN patterns
                     THEN Get(patterns[fps[1]], "confidence_threshold",
                              ConfidenceBar)
                     ELSE ConfidenceBar)

\* if confidence >= 0.8 (line 174)
MeetsBar(confidence) == confidence >= ConfidenceBar

\* The primary agent's execute_agent ended (lines 171-189 / 191-204).
ResumePrimary(out) ==
  /\ call.op = "execute_with_pattern_fallback"
  /\ call.phase = "primary"
  /\ heap' = AfterAgentHeap(out)
  /\ memory' = AfterAgentMemory(out)
  /\ outcomes' = Append(outcomes, OutcomeRecord(out))
  /\ LET confidence == Get(NewObject(out), "confidence", DefaultConfidence)
         c1  == [call EXCEPT !.result = NewRef, !.confidence = confidence]
         nxt == IF out.kind = "raise"
                THEN ContinueRecover(call, 1, AgentException, AgentException)
                ELSE IF MeetsBar(confidence)
                THEN [pc |-> "done", call |-> c1, ea |-> NoFrame,
                      ret |-> Returned(NewRef)]
                ELSE ContinueLow(c1, 1)
     IN  /\ Goto(nxt)
         /\ invoked' = IF nxt.pc = "await" THEN Append(invoked, nxt.ea)
                       ELSE invoked
  /\ now' = Later
  /\ UNCHANGED <<agents, tools, patterns, pattern_memory, shared_state, mem0,
                 ss0, libvars>>

\* A fallback pattern's execute_agent ended inside _apply_pattern
\* (lines 216-236), in either pass.
ResumePattern(out) ==
  /\ call.op = "execute_with_pattern_fallback"
  /\ call.phase \in {"low", "recover"}
  /\ outcomes' = Append(outcomes, OutcomeRecord(out))
  /\ LET pattern_name == call.fallback_patterns[call.idx]
         pattern == patterns[pattern_name]
         result  == PatternResult(pattern, NewObject(out))
         nxt == IF out.kind = "raise"
                THEN IF call.phase = "low"
                     THEN ContinueRecover(call, 1, AgentException,
                                          AgentException)
                     ELSE ContinueRecover(call, call.idx + 1, call.exc[1],
                                          AgentException)
                ELSE IF call.phase = "recover"
                        \/ Improves(result, call.confidence)
                THEN [pc |-> "done", call |-> call, ea |-> NoFrame,
                      ret |-> Returned(NewRef)]
                ELSE ContinueLow(call, call.idx + 1)
     IN  /\ Goto(nxt)
         /\ invoked' = IF nxt.pc = "await" THEN Append(invoked, nxt.ea)
                       ELSE invoked
         /\ IF out.kind = "raise"
            THEN /\ heap' = AfterAgentHeap(out)
                 /\ memory' = AfterAgentMemory(out)
            ELSE /\ heap' = [AfterAgentHeap(out) EXCEPT ![NewRef] = result]
                 /\ memory' = store_interaction(AfterAgentMemory(out),
                                  Later, PatternEntryName(pattern_name),
                                  call.input_prompt, NewRef,
                                  SuccessConfidence(result), <<>>,
                                  Later - ea.start_time,
                                  Some(pattern_name))
  /\ now' = Later
  /\ UNCHANGED <<agents, tools, patterns, pattern_memory, shared_state, mem0,
                 ss0, libvars>>

\* --------------------------------------------------------------- the agent
AgentReturns(result) ==
  /\ pc = "await"
  /\ LET out == [kind |-> "return", result |-> result]
     IN  \/ ResumeExecuteAgent(out)
         \/ ResumePipeline(out)
         \/ ResumePrimary(out)
         \/ ResumePattern(out)

AgentRaises ==
  /\ pc = "await"
  /\ LET out == [kind |-> "raise"]
     IN  \/ ResumeExecuteAgent(out)
         \/ ResumePipeline(out)
         \/ ResumePrimary(out)
         \/ ResumePattern(out)

Next ==
  \/ \E name \in AgentNames : register_agent(name)
  \/ \E name \in ToolNames : register_tool(name)
  \/ \E p \in PatternInputs : register_pattern(p[1], p[2])
  \/ \E a \in AgentNames, t \in ToolArgs : execute_agent(a, Prompt, t)
  \/ \E s \in SequenceArgs, t \in ToolsPerAgentArgs :
        execute_pipeline(Prompt, s, t)
  \/ \E a \in AgentNames, f \in FallbackArgs :
        execute_with_pattern_fallback(Prompt, a, f)
  \/ \E d \in ImportDocs : import_memory(d)
  \/ clear_memory
  \/ \E r \in AgentResults : AgentReturns(r)
  \/ AgentRaises

Spec == Init /\ [][Next]_vars

TypeOK ==
  /\ pc \in {"idle", "await", "done"}
  /\ \A i \in 1..Len(memory) : memory[i].output \in 1..Len(heap)

\* ======================================================== retention of stores
\* FusionContext.store_interaction and
\* ExecutionChainOrchestrator._store_in_memory called again and again on
\* their stores.  The clock advances by one between two calls.  The two
\* stores belong to different programs (neither class uses the other): a run
\* exercises one of them.
RetentionCap == 100   \* `if len(self.memory) > 100`, `self.memory[-100:]`
MaxStored    == 102   \* appends offered in one run

\* the orchestrator state no store operation touches
orchvars == <<agents, tools, patterns, pattern_memory, shared_state, pc, call,
              ea, ret, invoked, outcomes, mem0, ss0>>

\* a call of FusionContext.store_interaction, as execute_agent makes it
StoreInteraction(agent_name, input_prompt, result) ==
  /\ now < MaxStored
  /\ chain_memory = <<>>
  /\ heap' = Append(heap, result)
  /\ memory' = store_interaction(memory, now, agent_name, input_prompt,
                                 Len(heap) + 1, SuccessConfidence(result),
                                 <<>>, 0, None)
  /\ now' = now + 1
  /\ UNCHANGED <<auxvars, orchvars, chain_memory, agent_memory, registry, usage_log,
                 answer>>

\* self.memory[-n:] when len(self.memory) > n
KeepLast(mem, n) ==
  IF Len(mem) > n THEN SubSeq(mem, Len(mem) - n + 1, Len(mem)) ELSE mem

\* ExecutionChainOrchestrator._store_in_memory
store_in_memory(input_prompt, result) ==
  /\ now < MaxStored
  /\ memory = <<>>
  /\ chain_memory' =
       KeepLast(Append(chain_memory,
                       [input     |-> input_prompt,
                        result    |-> result,
                        timestamp |-> now,
                        success   |-> Get(result, "status", None)
                                        = "SUCCESS"]),
                RetentionCap)
  /\ now' = now + 1
  /\ UNCHANGED <<auxvars, orchvars, memory, heap, agent_memory, registry, usage_log,
                 answer>>

NextRetention ==
  \/ StoreInteraction("a1", Prompt, [output |-> <<"o1">>])
  \/ store_in_memory(Prompt, [status |-> "SUCCESS"])

SpecRetention == Init /\ [][NextRetention]_vars

\* ======================================================================= text
\* For matching, a text is the sequence of its characters.
UpperCase == <<"A", "B", "C", "D", "E", "F", "G", "H", "I", "J", "K", "L", "M",
               "N", "O", "P", "Q", "R", "S", "T", "U", "V", "W", "X", "Y", "Z">>
LowerCase == <<"a", "b", "c", "d", "e", "f", "g", "h", "i", "j", "k", "l", "m",
               "n", "o", "p", "q", "r", "s", "t", "u", "v", "w", "x", "y", "z">>

\* str.lower()
LowerChar(c) ==
  IF \E i \in 1..Len(UpperCase) : UpperCase[i] = c
  THEN LowerCase[CHOOSE i \in 1..Len(UpperCase) : UpperCase[i] = c]
  ELSE c
Lower(text) == [i \in 1..Len(text) |-> LowerChar(text[i])]

\* `sub in text`
Occurs(sub, text) ==
  \E i \in 1..(Len(text) - Len(sub) + 1) :
    SubSeq(text, i, i + Len(sub) - 1) = sub

\* str.split(): the maximal runs of characters other than blanks
RECURSIVE SplitFrom(_, _, _)
SplitFrom(text, i, word) ==
  IF i > Len(text)
  THEN IF word = <<>> THEN <<>> ELSE <<word>>
  ELSE IF text[i] = " "
  THEN (IF word = <<>> THEN <<>> ELSE <<word>>) \o SplitFrom(text, i + 1, <<>>)
  ELSE SplitFrom(text, i + 1, Append(word, text[i]))
Split(text) == SplitFrom(text, 1, <<>>)
WordSet(text) == { Split(text)[i] : i \in 1..Len(Split(text)) }

\* The prompts offered to the matching functions: "design for accessibility",
\* "Audit the UX", "build trust", "hello", "review".
MatchPrompts ==
  { <<"d", "e", "s", "i", "g", "n", " ", "f", "o", "r", " ", "a", "c", "c", "e", "s", "s", "i", "b", "i", "l", "i", "t", "y">>,
    <<"A", "u", "d", "i", "t", " ", "t", "h", "e", " ", "U", "X">>,
    <<"b", "u", "i", "l", "d", " ", "t", "r", "u", "s", "t">>,
    <<"h", "e", "l", "l", "o">>,
    <<"r", "e", "v", "i", "e", "w">> }

\* memory_system.PatternRegistry.patterns as __init__ builds it: the names in
\* dict order, each with its keywords.
BuiltinKeywordPatterns ==
  << [name |-> "design_enhancement",
      keywords |-> << <<"d", "e", "s", "i", "g", "n">>,
                      <<"u", "i">>,
                      <<"u", "x">>,
                      <<"i", "n", "t", "e", "r", "f", "a", "c", "e">>,
                      <<"l", "a", "y", "o", "u", "t">> >>],
     [name |-> "ux_audit",
      keywords |-> << <<"a", "u", "d", "i", "t">>,
                      <<"e", "v", "a", "l", "u", "a", "t", "e">>,
                      <<"r", "e", "v", "i", "e", "w">>,
                      <<"u", "x">>,
                      <<"u", "s", "a", "b", "i", "l", "i", "t", "y">> >>],
     [name |-> "trust_building",
      keywords |-> << <<"t", "r", "u", "s", "t">>,
                      <<"s", "e", "c", "u", "r", "i", "t", "y">>,
                      <<"p", "r", "i", "v", "a", "c", "y">>,
                      <<"r", "e", "l", "i", "a", "b", "i", "l", "i", "t", "y">> >>],
     [name |-> "comprehensive_evaluation",
      keywords |-> << <<"e", "v", "a", "l", "u", "a", "t", "e">>,
                      <<"a", "s", "s", "e", "s", "s">>,
                      <<"s", "c", "o", "r", "e">>,
                      <<"a", "n", "a", "l", "y", "z", "e">> >>],
     [name |-> "basic_evaluation",
      keywords |-> << <<"c", "h", "e", "c", "k">>,
                      <<"r", "e", "v", "i", "e", "w">>,
                      <<"b", "a", "s", "i", "c">>,
                      <<"s", "i", "m", "p", "l", "e">> >>] >>

\* a dict a caller may put in place of it: p1 = {design},
\* p2 = {design, accessibility}
CallerKeywordPatterns ==
  << [name |-> "p1", keywords |-> << <<"d", "e", "s", "i", "g", "n">> >>],
     [name |-> "p2",
      keywords |-> << <<"d", "e", "s", "i", "g", "n">>,
                      <<"a", "c", "c", "e", "s", "s", "i", "b", "i", "l", "i", "t", "y">> >>] >>

\* ------------------------------------------------- pattern registry: steps
\* the state no registry operation touches
storevars == <<memory, heap, chain_memory, agent_memory>>

\* PatternRegistry.register_pattern (lines 108-127)
PatternRegistry_register_pattern(name, pattern_data) ==
  /\ registry' = RegisterPattern(registry, name, pattern_data)
  /\ usage_log' = [n \in DOMAIN usage_log |->
                     IF n = name
                     THEN [usage_log[n] EXCEPT !.since = Len(usage_log[n].calls)]
                     ELSE usage_log[n]]
  /\ UNCHANGED <<auxvars, orchvars, storevars, now, answer>>

\* variant: the previous average is weighted with the new count
NewAverage_newCount(current_avg, usage_count, confidence) ==
  Fraction(current_avg.num * usage_count + confidence * current_avg.den,
           current_avg.den * usage_count)

\* ((current_avg * (usage_count - 1)) + confidence) / usage_count
NewAverage(current_avg, usage_count, confidence) ==
  Fraction(current_avg.num * (usage_count - 1) + confidence * current_avg.den,
           current_avg.den * usage_count)

\* PatternRegistry.record_pattern_usage (lines 196-219)
record_pattern_usage(pattern_name, confidence, success) ==
  /\ Len(usage_log[pattern_name].calls) < MaxUsages
  /\ LET stats == Get(registry.pattern_usage_stats, pattern_name, NoStats)
         usage_count == stats.usage_count + 1
     IN  registry' =
           [registry EXCEPT !.pattern_usage_stats =
              SetKey(@, pattern_name,
                     [usage_count    |-> usage_count,
                      last_used      |-> Some(now),
                      success_count  |-> IF success
                                         THEN stats.success_count + 1
                                         ELSE stats.success_count,
                      avg_confidence |-> NewAverage(stats.avg_confidence,
                                                    usage_count, confidence)])]
  /\ usage_log' = [usage_log EXCEPT ![pattern_name].calls =
                     Append(@, [confidence |-> confidence,
                                success |-> success])]
  /\ now' = now + 1
  /\ UNCHANGED <<auxvars, orchvars, storevars, answer>>

\* PatternRegistry.find_best_pattern (lines 142-162)
DesignWords ==
  { <<"d", "e", "s", "i", "g", "n">>,
    <<"u", "i">>,
    <<"u", "x">>,
    <<"i", "n", "t", "e", "r", "f", "a", "c", "e">> }
AuditWords ==
  { <<"a", "u", "d", "i", "t">>,
    <<"e", "v", "a", "l", "u", "a", "t", "e">> }
TrustWords ==
  { <<"t", "r", "u", "s", "t">>,
    <<"c", "o", "n", "f", "i", "d", "e", "n", "c", "e">> }
EvaluationWords ==
  { <<"e", "v", "a", "l", "u", "a", "t", "e">>,
    <<"a", "s", "s", "e", "s", "s">>,
    <<"s", "c", "o", "r", "e">>,
    <<"a", "n", "a", "l", "y", "z", "e">> }
AnyOccurs(ws, text) == \E w \in ws : Occurs(w, text)

FindBestPattern(input_prompt) ==
  LET prompt_lower == Lower(input_prompt)
  IN  IF AnyOccurs(DesignWords, prompt_lower)
      THEN IF AnyOccurs(AuditWords, prompt_lower) THEN "ux_audit"
           ELSE IF AnyOccurs(TrustWords, prompt_lower) THEN "trust_building"
           ELSE "design_enhancement"
      ELSE IF AnyOccurs(EvaluationWords, prompt_lower)
      THEN "comprehensive_evaluation"
      ELSE "design_enhancement"

\* the answer keeps the registry's patterns as they were when it was asked
find_best_pattern(input_prompt) ==
  /\ answer' = [op |-> "find_best_pattern", order |-> registry.order,
                patterns |-> registry.patterns, input |-> input_prompt,
                result |-> FindBestPattern(input_prompt)]
  /\ UNCHANGED <<auxvars, orchvars, storevars, now, registry, usage_log>>

\* memory_system.PatternRegistry.match_pattern (lines 173-189) over the
\* dict `ps`, given as the sequence of its items
KeywordScore(keywords, input_lower) ==
  Cardinality({ i \in 1..Len(keywords) : Occurs(keywords[i], input_lower) })

\* variant: `>=`, the last of the best wins
Better_ge(score, best_score) == score >= best_score

\* if score > best_score
Better(score, best_score) == score > best_score

RECURSIVE MatchLoop(_, _, _, _, _)
MatchLoop(ps, i, input_lower, best_pattern, best_score) ==
  IF i > Len(ps) THEN best_pattern
  ELSE LET score == KeywordScore(ps[i].keywords, input_lower)
       IN  IF Better(score, best_score)
           THEN MatchLoop(ps, i + 1, input_lower, Some(ps[i].name), score)
           ELSE MatchLoop(ps, i + 1, input_lower, best_pattern, best_score)

\* return best_pattern or 'design_enhancement'
MatchPattern(ps, input_text) ==
  LET best_pattern == MatchLoop(ps, 1, Lower(input_text), None, 0)
  IN  IF best_pattern = None THEN "design_enhancement" ELSE best_pattern[1]

match_pattern(ps, input_text) ==
  /\ answer' = [op |-> "match_pattern", patterns |-> ps,
                input |-> input_text, result |-> MatchPattern(ps, input_text)]
  /\ UNCHANGED <<auxvars, orchvars, storevars, now, registry, usage_log>>

\* registrations and usage records
NextRegistry ==
  \/ \E p \in RegistryInputs : PatternRegistry_register_pattern(p[1], p[2])
  \/ \E n \in UsageNames, c \in UsageConfidences, s \in BOOLEAN :
        record_pattern_usage(n, c, s)

SpecRegistry == Init /\ [][NextRegistry]_vars

\* registrations and matching queries
NextMatch ==
  \/ \E p \in RegistryInputs : PatternRegistry_register_pattern(p[1], p[2])
  \/ \E t \in MatchPrompts : find_best_pattern(t)
  \/ \E ps \in {BuiltinKeywordPatterns, CallerKeywordPatterns},
        t \in MatchPrompts : match_pattern(ps, t)

SpecMatch == Init /\ [][NextMatch]_vars

\* ========================================================= relevant memory
\* AgentMemory (memory_system.py) and FusionContext asked for the entries
\* relevant to a query.  As for retention, a run exercises one of the stores.
MaxEntries == 3   \* entries a store is given in one run

\* "ux audit", "UX design", "design"
EntryTexts ==
  { <<"u", "x", " ", "a", "u", "d", "i", "t">>,
    <<"U", "X", " ", "d", "e", "s", "i", "g", "n">>,
    <<"d", "e", "s", "i", "g", "n">> }
\* "ux design", "UX", ""
Queries ==
  { <<"u", "x", " ", "d", "e", "s", "i", "g", "n">>,
    <<"U", "X">>,
    <<>> }
Limits == {0, 1, 2}

\* the document save_memory writes (lines 44-49); the modelled entries name
\* no pattern and update_shared_state is not called, so that patterns and
\* shared_state stay empty
SavedMemory(mem, last_updated) ==
  [memory |-> mem, patterns |-> <<>>, shared_state |-> <<>>,
   last_updated |-> last_updated]

\* AgentMemory.add_memory_entry of an entry that names no pattern (so that
\* _update_patterns has nothing to update), save_memory included
add_memory_entry(entry) ==
  /\ Len(agent_memory) < MaxEntries
  /\ memory = <<>>
  /\ agent_memory' = Append(agent_memory, entry)
  /\ memory_file' = Some(SavedMemory(agent_memory', now))
  /\ now' = now + 1
  /\ UNCHANGED <<scorecard, export_file, tasks, orchvars, memory, heap,
                 chain_memory, registry, usage_log, answer>>

AgentMemoryEntry(input_text) ==
  [timestamp |-> now, agent_name |-> "a1", input_text |-> input_text,
   output |-> <<"o1">>, confidence |-> 8, patterns_used |-> <<>>,
   tools_used |-> <<>>, execution_time |-> 0]

\* relevance_score = overlap / max(len(query_words), 1)
RelevanceScore(query_words, entry_words) ==
  Fraction(Cardinality(query_words \cap entry_words),
           IF Cardinality(query_words) > 1 THEN Cardinality(query_words)
           ELSE 1)

\* relevance_score > 0.1
AboveThreshold(score) == score.num * 10 > score.den

\* a's score is smaller than b's
ScoreLess(a, b) == a.num * b.den < b.num * a.den

\* scored_entries, in memory order
RECURSIVE ScoredEntries(_, _)
ScoredEntries(mem, query_words) ==
  IF mem = <<>> THEN <<>>
  ELSE LET relevance_score ==
             RelevanceScore(query_words, WordSet(Lower(Head(mem).input_text)))
           rest == ScoredEntries(Tail(mem), query_words)
       IN  IF AboveThreshold(relevance_score)
           THEN <<[entry |-> Head(mem), relevance_score |-> relevance_score]>>
                  \o rest
           ELSE rest

\* variant: among equal scores the later element comes first
InsertByScore_recentFirst(sorted, x) ==
  LET before == { i \in 1..Len(sorted) :
                    ScoreLess(x.relevance_score, sorted[i].relevance_score) }
      n == Cardinality(before)
  IN  SubSeq(sorted, 1, n) \o <<x>> \o SubSeq(sorted, n + 1, Len(sorted))

\* list.sort(key=relevance_score, reverse=True) is stable: an element goes
\* behind those whose score is not smaller
InsertByScore(sorted, x) ==
  LET before == { i \in 1..Len(sorted) :
                    ~ScoreLess(sorted[i].relevance_score, x.relevance_score) }
      n == Cardinality(before)
  IN  SubSeq(sorted, 1, n) \o <<x>> \o SubSeq(sorted, n + 1, Len(sorted))

RECURSIVE SortByScore(_)
SortByScore(scored) ==
  IF scored = <<>> THEN <<>>
  ELSE InsertByScore(SortByScore(SubSeq(scored, 1, Len(scored) - 1)),
                     scored[Len(scored)])

\* seq[:limit], limit >= 0
Prefix(seq, limit) ==
  SubSeq(seq, 1, IF limit < Len(seq) THEN limit ELSE Len(seq))

\* AgentMemory.get_relevant_memory (lines 81-100)
GetRelevantMemory(mem, query, limit) ==
  LET sorted == SortByScore(ScoredEntries(mem, WordSet(Lower(query))))
  IN  [i \in 1..Len(Prefix(sorted, limit)) |-> sorted[i].entry]

get_relevant_memory(query, limit) ==
  /\ answer' = [op |-> "AgentMemory.get_relevant_memory",
                memory |-> agent_memory, query |-> query, limit |-> limit,
                result |-> GetRelevantMemory(agent_memory, query, limit)]
  /\ UNCHANGED <<auxvars, orchvars, storevars, now, registry, usage_log>>

\* FusionContext.get_relevant_memory (lines 74-86): the loop over
\* reversed(self.memory) from position i down
RECURSIVE RelevantFrom(_, _, _, _, _)
RelevantFrom(mem, i, query_words, limit, relevant) ==
  IF i < 1 THEN relevant
  ELSE IF \E j \in 1..Len(query_words) :
            Occurs(query_words[j], Lower(mem[i].input_prompt))
  THEN IF Len(relevant) + 1 >= limit THEN Append(relevant, mem[i])
       ELSE RelevantFrom(mem, i - 1, query_words, limit,
                         Append(relevant, mem[i]))
  ELSE RelevantFrom(mem, i - 1, query_words, limit, relevant)

ContextRelevantMemory(mem, query, limit) ==
  RelevantFrom(mem, Len(mem), Split(Lower(query)), limit, <<>>)

FusionContext_get_relevant_memory(query, limit) ==
  /\ answer' = [op |-> "FusionContext.get_relevant_memory",
                memory |-> memory, query |-> query, limit |-> limit,
                result |-> ContextRelevantMemory(memory, query, limit)]
  /\ UNCHANGED <<auxvars, orchvars, storevars, now, registry, usage_log>>

NextRelevance ==
  \/ \E t \in EntryTexts : add_memory_entry(AgentMemoryEntry(t))
  \/ \E t \in EntryTexts :
        /\ Len(memory) < MaxEntries
        /\ agent_memory = <<>>
        /\ StoreInteraction("a1", t, [output |-> <<"o1">>])
  \/ \E q \in Queries, l \in Limits : get_relevant_memory(q, l)
  \/ \E q \in Queries, l \in Limits : FusionContext_get_relevant_memory(q, l)

SpecRelevance == Init /\ [][NextRelevance]_vars

\* ============================================================== persistence
\* FusionContext.export_memory / import_memory through a file, and
\* AgentMemory.save_memory / load_memory through agent_memory.json.  A run
\* stores into one of the two components, writes the file, creates a new
\* component and reads the file back.  json.dump followed by json.load gives
\* back the strings, numbers, lists, None and string-keyed dicts the
\* components hold as they were; what the functions do beside it is
\* modelled: export copies each entry with the dict it refers to, import
\* builds new entries and new dicts, field by field.
MaxContext == 2   \* stores offered to the context in one run
MaxLoaded  == 2   \* import_memory is offered while memory is shorter

\* the results stored: one of a successful and one of a failed interaction
StoredResults ==
  { [output |-> <<"o1">>, confidence |-> 5],
    [error |-> <<"boom">>, confidence |-> 0] }

SharedKeys   == {"k1"}
SharedValues == {"v1", "v2"}

\* variant: the entries are written newest first
ExportedEntries_newestFirst(mem, hp) ==
  [i \in 1..Len(mem) |->
     [mem[Len(mem) + 1 - i] EXCEPT !.output = hp[mem[Len(mem) + 1 - i].output]]]

\* [asdict(entry) for entry in self.memory]: a copy of every entry, the
\* output dict included
ExportedEntries(mem, hp) ==
  [i \in 1..Len(mem) |-> [mem[i] EXCEPT !.output = hp[mem[i].output]]]

\* what a context holds, by value
ContextView(mem, hp, pm, ss) ==
  [memory |-> ExportedEntries(mem, hp), pattern_memory |-> pm,
   shared_state |-> ss]

\* FusionContext(config), lines 30-36, replacing the context in use while no
\* call is in progress: the dicts only the old context referred to are gone
FusionContext_init ==
  /\ pc = "idle"
  /\ memory' = <<>>
  /\ pattern_memory' = <<>>
  /\ shared_state' = <<>>
  /\ heap' = <<>>
  /\ answer' = NoAnswer
  /\ UNCHANGED <<agents, tools, patterns, pc, call, ea, ret, invoked,
                 outcomes, mem0, ss0, now, chain_memory, agent_memory,
                 registry, usage_log, auxvars>>

\* FusionContext.set_shared_state (lines 69-72)
set_shared_state(key, value) ==
  /\ shared_state' = SetKey(shared_state, key, value)
  /\ UNCHANGED <<agents, tools, patterns, memory, pattern_memory, heap, pc,
                 call, ea, ret, invoked, outcomes, mem0, ss0, now, libvars>>

\* FusionContext.store_pattern_memory (lines 92-96)
store_pattern_memory(pattern_name, data) ==
  /\ pattern_memory' =
       SetKey(pattern_memory, pattern_name,
              MergeSharedState(Get(pattern_memory, pattern_name, <<>>), data))
  /\ UNCHANGED <<agents, tools, patterns, memory, shared_state, heap, pc,
                 call, ea, ret, invoked, outcomes, mem0, ss0, now, libvars>>

\* FusionContext.export_memory (lines 122-134)
export_memory ==
  /\ export_file' =
       Some([session_id     |-> "session",
             memory         |-> ExportedEntries(memory, heap),
             pattern_memory |-> pattern_memory,
             shared_state   |-> shared_state])
  /\ UNCHANGED <<orchvars, storevars, now, registry, usage_log, answer,
                 scorecard, memory_file, tasks>>

\* a document some other program left at the path
write_file(doc) ==
  /\ export_file' = Some(doc)
  /\ UNCHANGED <<orchvars, storevars, now, registry, usage_log, answer,
                 scorecard, memory_file, tasks>>

\* FusionContext.import_memory (lines 136-156) of the file: whatever fails
\* inside the try block, a missing file included, ends in the handler
FusionContext_import_memory ==
  /\ IF export_file = NoFile
     THEN UNCHANGED <<memory, heap, pattern_memory, shared_state>>
     ELSE ImportInto(export_file[1])
  /\ answer' = [op |-> "import_memory", file |-> export_file,
                outcome |-> "returned",
                before |-> ContextView(memory, heap, pattern_memory,
                                       shared_state),
                after |-> ContextView(memory', heap', pattern_memory',
                                      shared_state')]
  /\ UNCHANGED <<agents, tools, patterns, pc, call, ea, ret, invoked,
                 outcomes, mem0, ss0, now, chain_memory, agent_memory,
                 registry, usage_log, auxvars>>

\* AgentMemory(): lines 22-27
AgentMemory_init ==
  /\ agent_memory' = <<>>
  /\ answer' = NoAnswer
  /\ UNCHANGED <<orchvars, memory, heap, chain_memory, now, registry,
                 usage_log, auxvars>>

\* AgentMemory.load_memory (lines 29-40)
load_memory ==
  /\ agent_memory' = IF memory_file = NoFile THEN <<>>
                     ELSE Get(memory_file[1], "memory", <<>>)
  /\ answer' = [op |-> "load_memory", file |-> memory_file,
                before |-> agent_memory, after |-> agent_memory']
  /\ UNCHANGED <<orchvars, memory, heap, chain_memory, now, registry,
                 usage_log, auxvars>>

\* A run works on the context or on the AgentMemory; the context is filled
\* before its first import, or again after a new one was created.
ContextRun == agent_memory = <<>> /\ memory_file = NoFile
AgentRun ==
  /\ memory = <<>> /\ pattern_memory = <<>> /\ shared_state = <<>>
  /\ export_file = NoFile
Filling == ContextRun /\ answer = NoAnswer

NextPersistence ==
  \/ \E r \in StoredResults :
        /\ Filling
        /\ now < MaxContext
        /\ StoreInteraction("a1", Prompt, r)
  \/ \E k \in SharedKeys, v \in SharedValues :
        Filling /\ set_shared_state(k, v)
  \/ \E v \in SharedValues :
        Filling /\ store_pattern_memory("p1", [uses |-> v])
  \/ ContextRun /\ export_memory
  \/ \E d \in ImportDocs : ContextRun /\ write_file(d)
  \/ ContextRun /\ Len(memory) < MaxLoaded /\ FusionContext_import_memory
  \/ ContextRun /\ FusionContext_init
  \/ \E t \in EntryTexts :
        /\ AgentRun
        /\ now < MaxContext
        /\ add_memory_entry(AgentMemoryEntry(t))
  \/ AgentRun /\ load_memory
  \/ AgentRun /\ AgentMemory_init

SpecPersistence == Init /\ [][NextPersistence]_vars

\* ========================================================= concurrent calls
\* Two execute_agent coroutines on one orchestrator and one context, as
\* asyncio.gather runs them: a coroutine runs alone from one await of an
\* agent's run to the next (`await self.context.store_interaction(...)` does
\* not suspend, the coroutine it awaits has no await inside).  The
\* registrations and the import come first.
TaskPrompts == { <<"q1">>, <<"q2">> }

NoneStarted == \A t \in Tasks : tasks[t].state = "new"

\* variant: the locals of execute_agent are shared by the coroutines, the
\* call started under the higher number overwriting them
TaskFrame_shared(t) ==
  tasks[CHOOSE u \in Tasks :
          /\ tasks[u].state # "new"
          /\ \A v \in Tasks : tasks[v].state # "new" => v <= u].frame

\* agent_name, input_prompt, available_tools and start_time are locals of
\* the coroutine
TaskFrame(t) == tasks[t].frame

\* execute_agent up to `await agent.run(...)` (lines 46-66) in coroutine t
Task_execute_agent(t, agent_name, input_prompt, requested) ==
  /\ tasks[t].state = "new"
  /\ mem0' = IF NoneStarted THEN memory ELSE mem0
  /\ tasks' = [tasks EXCEPT ![t] =
       IF IsRegistered(agent_name)
       THEN [state |-> "await", agent_name |-> agent_name,
             input_prompt |-> input_prompt,
             frame |-> Frame(agent_name, input_prompt, requested),
             out |-> None, ret |-> [kind |-> "none"]]
       ELSE [state |-> "done", agent_name |-> agent_name,
             input_prompt |-> input_prompt, frame |-> NoFrame,
             out |-> None, ret |-> Raised(NotRegistered(agent_name))]]
  /\ UNCHANGED <<agents, tools, patterns, memory, pattern_memory,
                 shared_state, heap, pc, call, ea, ret, invoked, outcomes,
                 ss0, now, chain_memory, agent_memory, registry, usage_log,
                 answer, scorecard, export_file, memory_file>>

\* the dict stored and returned, or the error payload stored (line 93)
TaskObject(f, out) ==
  IF out.kind = "return" THEN out.result
  ELSE [error |-> StrOf(AgentError(f.agent_name, NewRef))]

\* coroutine t after its agent's run ended (lines 70-99)
Task_resume(t, out) ==
  /\ tasks[t].state = "await"
  /\ LET f == TaskFrame(t)
     IN  /\ heap' = Append(heap, TaskObject(f, out))
         /\ memory' = store_interaction(memory, Later, f.agent_name,
                                        f.input_prompt, NewRef,
                                        EntryConfidence(out),
                                        f.available_tools,
                                        Later - f.start_time, None)
         /\ tasks' = [tasks EXCEPT ![t].state = "done",
                                   ![t].out = Some(out),
                                   ![t].ret =
                                     IF out.kind = "return"
                                     THEN Returned(NewRef)
                                     ELSE Raised(AgentError(f.agent_name,
                                                            NewRef))]
  /\ now' = Later
  /\ UNCHANGED <<agents, tools, patterns, pattern_memory, shared_state, pc,
                 call, ea, ret, invoked, outcomes, mem0, ss0, chain_memory,
                 agent_memory, registry, usage_log, answer, scorecard,
                 export_file, memory_file>>

NextConcurrent ==
  \/ \E name \in AgentNames : NoneStarted /\ register_agent(name)
  \/ \E name \in ToolNames : NoneStarted /\ register_tool(name)
  \/ \E d \in ImportDocs : NoneStarted /\ import_memory(d)
  \/ \E t \in Tasks, a \in AgentNames, p \in TaskPrompts, r \in ToolArgs :
        Task_execute_agent(t, a, p, r)
  \/ \E t \in Tasks, r \in StoredResults :
        Task_resume(t, [kind |-> "return", result |-> r])
  \/ \E t \in Tasks : Task_resume(t, [kind |-> "raise"])

SpecConcurrent == Init /\ [][NextConcurrent]_vars

\* ======================================================== pattern promotion
\* PatternPromoter.promote_from_memory (patterns/pattern_promoter.py) applied
\* to lists of runs.  Text is a sequence of characters; a score is an
\* integer number of hundredths.
MaxRuns == 3              \* longest list of runs offered
PromotionThreshold == 95  \* threshold: float = 0.95

Whitespace == {" ", "\t", "\n"}

\* str.strip()
RECURSIVE StripLeft(_)
StripLeft(text) ==
  IF text # <<>> /\ Head(text) \in Whitespace THEN StripLeft(Tail(text))
  ELSE text

RECURSIVE StripRight(_)
StripRight(text) ==
  IF text # <<>> /\ text[Len(text)] \in Whitespace
  THEN StripRight(SubSeq(text, 1, Len(text) - 1))
  ELSE text

Strip(text) == StripRight(StripLeft(text))

\* the runs offered: at the threshold with blanks around prompt and output,
\* below the threshold, a blank prompt, no generated output, a run without
\* result, and a plain run above the threshold
PromoterRuns ==
  { [input |-> <<" ", "u", "i", " ">>,
     result |-> [overall_score |-> 95, quality_metrics |-> [m |-> 1],
                 code |-> [output |-> <<"o", "k", "\n">>]]],
    [input |-> <<"q">>,
     result |-> [overall_score |-> 94, code |-> [output |-> <<"x">>]]],
    [input |-> <<" ", " ">>,
     result |-> [overall_score |-> 99, code |-> [output |-> <<"x">>]]],
    [input |-> <<"q">>, result |-> [overall_score |-> 100]],
    [input |-> <<"q">>],
    [input |-> <<"q">>,
     result |-> [overall_score |-> 96, code |-> [output |-> <<"x">>]]] }

\* the loop of lines 23-45 from run i on
RECURSIVE PromotedFrom(_, _, _)
PromotedFrom(mem, i, promoted) ==
  IF i > Len(mem) THEN promoted
  ELSE LET run == mem[i]
           result == Get(run, "result", <<>>)
           overall_score == Get(result, "overall_score", 0)
           quality_metrics == Get(result, "quality_metrics", <<>>)
           prompt == Strip(Get(run, "input", <<>>))
           code_output == Strip(Get(Get(result, "code", <<>>), "output", <<>>))
       IN  IF overall_score >= PromotionThreshold
              /\ prompt # <<>> /\ code_output # <<>>
           THEN PromotedFrom(mem, i + 1,
                  Append(promoted,
                         [name            |-> <<"auto_promoted_", Len(promoted) + 1>>,
                          source_prompt   |-> prompt,
                          generated_code  |-> code_output,
                          score           |-> overall_score,
                          quality_metrics |-> quality_metrics,
                          timestamp       |-> now,
                          original_run    |-> run]))
           ELSE PromotedFrom(mem, i + 1, promoted)

\* lines 21-51: the class has no method _write_patterns, the call at line 49
\* raises AttributeError
PromoteFromMemory(mem) ==
  IF PromotedFrom(mem, 1, <<>>) # <<>>
  THEN Raised([type |-> "AttributeError", attr |-> "_write_patterns"])
  ELSE Returned(PromotedFrom(mem, 1, <<>>))

promote_from_memory(mem) ==
  /\ answer' = [op |-> "promote_from_memory", memory |-> mem,
                outcome |-> PromoteFromMemory(mem)]
  /\ UNCHANGED <<orchvars, storevars, now, registry, usage_log, auxvars>>

NextPromoter ==
  \E mem \in SeqsUpTo(PromoterRuns, MaxRuns) : promote_from_memory(mem)

SpecPromoter == Init /\ [][NextPromoter]_vars

\* =============================================================== dispatcher
\* DispatcherAgent (ChatGPT_Upload_v14/agents/dispatcher_agent.py).  Text is a
\* sequence of characters.  In this section a confidence, a rate and a
\* threshold are integer numbers of hundredths (0.15 is 15) and a composite
\* score is an integer number of thousandths; the sums of 0.15 the code
\* forms in floating point are kept exact, none of them is within rounding
\* distance of a value it is compared with.
KeywordConfidence   == 15    \* confidence += 0.15
ConfidenceCap       == 100   \* min(best_confidence, 1.0)
LowConfidence       == 50    \* if confidence < 0.5
DefaultThreshold    == 70    \* heuristic.get("confidence_threshold", 0.7)
DefaultRate         == 80    \* agent_data.get("success_rate", 0.8)

\* self.routing_heuristics, in dict order (lines 29-66)
routing_heuristics ==
  << [type |-> "design",
     keywords |-> << <<"d", "e", "s", "i", "g", "n">>, <<"u", "i">>, <<"u",
       "x">>, <<"i", "n", "t", "e", "r", "f", "a", "c", "e">>, <<"l", "a",
       "y", "o", "u", "t">>, <<"v", "i", "s", "u", "a", "l">>, <<"u", "s",
       "e", "r", " ", "e", "x", "p", "e", "r", "i", "e", "n", "c", "e">> >>,
     primary_agents |-> <<"principal_designer", "vp_of_design">>,
     fallback_agents |-> <<"design_technologist", "evaluator">>,
     confidence_threshold |-> 70],
     [type |-> "strategy",
     keywords |-> << <<"s", "t", "r", "a", "t", "e", "g", "y">>, <<"r", "o",
       "a", "d", "m", "a", "p">>, <<"p", "l", "a", "n", "n", "i", "n", "g">>,
       <<"b", "u", "s", "i", "n", "e", "s", "s">>, <<"m", "a", "r", "k", "e",
       "t">>, <<"e", "x", "e", "c", "u", "t", "i", "v", "e">> >>,
     primary_agents |-> <<"strategy_pilot", "vp_of_product">>,
     fallback_agents |-> <<"market_analyst", "evaluator">>,
     confidence_threshold |-> 70],
     [type |-> "technical",
     keywords |-> << <<"c", "o", "d", "e">>, <<"i", "m", "p", "l", "e", "m",
       "e", "n", "t", "a", "t", "i", "o", "n">>, <<"t", "e", "c", "h", "n",
       "i", "c", "a", "l">>, <<"d", "e", "v", "e", "l", "o", "p", "m", "e",
       "n", "t">>, <<"c", "o", "m", "p", "o", "n", "e", "n", "t">>, <<"s",
       "y", "s", "t", "e", "m">> >>,
     primary_agents |-> <<"design_technologist", "component_librarian">>,
     fallback_agents |-> <<"product_navigator", "evaluator">>,
     confidence_threshold |-> 70],
     [type |-> "content",
     keywords |-> << <<"c", "o", "n", "t", "e", "n", "t">>, <<"c", "o", "p",
       "y">>, <<"t", "e", "x", "t">>, <<"n", "a", "r", "r", "a", "t", "i",
       "v", "e">>, <<"s", "t", "o", "r", "y">>, <<"c", "o", "m", "m", "u",
       "n", "i", "c", "a", "t", "i", "o", "n">> >>,
     primary_agents |-> <<"content_designer", "deck_narrator">>,
     fallback_agents |-> <<"feedback_amplifier", "evaluator">>,
     confidence_threshold |-> 70],
     [type |-> "analysis",
     keywords |-> << <<"a", "n", "a", "l", "y", "z", "e">>, <<"e", "v", "a",
       "l", "u", "a", "t", "e">>, <<"a", "s", "s", "e", "s", "s">>, <<"r",
       "e", "v", "i", "e", "w">>, <<"e", "x", "a", "m", "i", "n", "e">>,
       <<"s", "t", "u", "d", "y">> >>,
     primary_agents |-> <<"evaluator", "market_analyst">>,
     fallback_agents |-> <<"strategy_archivist", "research_summarizer">>,
     confidence_threshold |-> 70],
     [type |-> "creative",
     keywords |-> << <<"c", "r", "e", "a", "t", "i", "v", "e">>, <<"i", "n",
       "n", "o", "v", "a", "t", "i", "v", "e">>, <<"a", "r", "t", "i", "s",
       "t", "i", "c">>, <<"c", "i", "n", "e", "m", "a", "t", "i", "c">>,
       <<"v", "i", "s", "u", "a", "l">>, <<"d", "e", "s", "i", "g", "n">> >>,
     primary_agents |-> <<"creative_director", "principal_designer">>,
     fallback_agents |-> <<"vp_of_design", "evaluator">>,
     confidence_threshold |-> 70] >>

\* the scorecard _ensure_scorecard_file writes when there is none
\* (lines 74-101)
DefaultScorecard ==
  [agents |->
     [vp_design |-> [success_rate |-> 85, avg_confidence |-> 88],
      evaluator |-> [success_rate |-> 90, avg_confidence |-> 92],
      creative_director |-> [success_rate |-> 82, avg_confidence |-> 85],
      design_technologist |-> [success_rate |-> 88, avg_confidence |-> 90],
      product_navigator |-> [success_rate |-> 87, avg_confidence |-> 89],
      strategy_pilot |-> [success_rate |-> 89, avg_confidence |-> 91],
      vp_of_design |-> [success_rate |-> 86, avg_confidence |-> 88],
      vp_of_product |-> [success_rate |-> 88, avg_confidence |-> 90],
      principal_designer |-> [success_rate |-> 84, avg_confidence |-> 87],
      component_librarian |-> [success_rate |-> 86, avg_confidence |-> 89],
      content_designer |-> [success_rate |-> 83, avg_confidence |-> 86],
      ai_interaction_designer |-> [success_rate |-> 85, avg_confidence |-> 88],
      strategy_archivist |-> [success_rate |-> 81, avg_confidence |-> 84],
      market_analyst |-> [success_rate |-> 87, avg_confidence |-> 89],
      workflow_optimizer |-> [success_rate |-> 83, avg_confidence |-> 86],
      product_historian |-> [success_rate |-> 82, avg_confidence |-> 85],
      deck_narrator |-> [success_rate |-> 84, avg_confidence |-> 87],
      portfolio_editor |-> [success_rate |-> 85, avg_confidence |-> 88],
      research_summarizer |-> [success_rate |-> 86, avg_confidence |-> 89],
      feedback_amplifier |-> [success_rate |-> 84, avg_confidence |-> 87]],
   metadata |-> [version |-> "1.0"]]

\* scorecards another run left in the file: one that ranks the agents
\* otherwise and lacks some of them, and a file that is not a scorecard
OtherScorecards ==
  { [agents |->
       [principal_designer |-> [success_rate |-> 95, avg_confidence |-> 90],
        vp_of_design |-> [success_rate |-> 60],
        strategy_pilot |-> [success_rate |-> 70, avg_confidence |-> 70],
        evaluator |-> [success_rate |-> 80, avg_confidence |-> 80],
        component_librarian |-> [success_rate |-> 99, avg_confidence |-> 99]],
     metadata |-> [version |-> "1.0"]],
    [corrupt |-> TRUE] }

\* the prompts offered to the dispatcher
DispatcherPrompts ==
  { <<"h", "e", "l", "l", "o">>,
    <<"b", "u", "i", "l", "d", " ", "a", " ", "g", "u", "i", "d", "e">>,
    <<"v", "i", "s", "u", "a", "l", " ", "d", "e", "s", "i", "g", "n">>,
    <<"D", "e", "s", "i", "g", "n", " ", "t", "h", "e", " ", "U", "I", " ", "a",
      "n", "d", " ", "U", "X", " ", "l", "a", "y", "o", "u", "t">>,
    <<"d", "e", "s", "i", "g", "n", " ", "u", "i", " ", "u", "x", " ", "i", "n",
      "t", "e", "r", "f", "a", "c", "e", " ", "l", "a", "y", "o", "u", "t">>,
    <<"d", "e", "s", "i", "g", "n", " ", "u", "i", " ", "u", "x", " ", "i", "n",
      "t", "e", "r", "f", "a", "c", "e", " ", "l", "a", "y", "o", "u", "t", " ",
      "v", "i", "s", "u", "a", "l", " ", "u", "s", "e", "r", " ", "e", "x", "p",
      "e", "r", "i", "e", "n", "c", "e">>,
    <<"c", "r", "e", "a", "t", "i", "v", "e", " ", "i", "n", "n", "o", "v", "a",
      "t", "i", "v", "e", " ", "a", "r", "t", "i", "s", "t", "i", "c", " ", "c",
      "i", "n", "e", "m", "a", "t", "i", "c">>,
    <<"s", "t", "r", "a", "t", "e", "g", "y", " ", "r", "o", "a", "d", "m", "a",
      "p", " ", "p", "l", "a", "n", "n", "i", "n", "g", " ", "b", "u", "s", "i",
      "n", "e", "s", "s">>,
    <<"c", "o", "d", "e", " ", "i", "m", "p", "l", "e", "m", "e", "n", "t", "a",
      "t", "i", "o", "n", " ", "t", "e", "c", "h", "n", "i", "c", "a", "l", " ",
      "s", "y", "s", "t", "e", "m">>,
    <<"c", "o", "n", "t", "e", "n", "t", " ", "c", "o", "p", "y", " ", "t", "e",
      "x", "t", " ", "s", "t", "o", "r", "y">>,
    <<"a", "n", "a", "l", "y", "z", "e", " ", "e", "v", "a", "l", "u", "a", "t",
      "e", " ", "a", "s", "s", "e", "s", "s", " ", "r", "e", "v", "i", "e", "w">>,
    <<"a", " ", "c", "r", "e", "a", "t", "i", "v", "e", " ", "v", "i", "s", "u",
      "a", "l", " ", "d", "e", "s", "i", "g", "n">> }

\* _read_scorecard (lines 103-110): a file that is missing or cannot be read
\* gives an empty scorecard
ReadScorecard(file) ==
  IF file = NoFile \/ "agents" \notin DOMAIN file[1]
  THEN [agents |-> <<>>, metadata |-> <<>>]
  ELSE file[1]

\* DispatcherAgent(): _ensure_scorecard_file (lines 68-101)
ensure_scorecard_file ==
  /\ scorecard' = IF scorecard = NoFile THEN Some(DefaultScorecard)
                  ELSE scorecard
  /\ UNCHANGED <<orchvars, storevars, now, registry, usage_log, answer,
                 export_file, memory_file, tasks>>

\* the scorecard is an input of the dispatcher: another program writes it
put_scorecard(content) ==
  /\ scorecard' = Some(content)
  /\ UNCHANGED <<orchvars, storevars, now, registry, usage_log, answer,
                 export_file, memory_file, tasks>>

\* the loop of lines 125-127
MatchConfidence(keywords, prompt_lower) ==
  KeywordConfidence
    * Cardinality({ k \in 1..Len(keywords) : Occurs(keywords[k], prompt_lower) })

\* variant: `>=`, the last type of the best wins
TypeBetter_ge(confidence, best_confidence) == confidence >= best_confidence

\* if confidence > best_confidence (line 129)
TypeBetter(confidence, best_confidence) == confidence > best_confidence

\* the loop of lines 120-132 from heuristic i on
RECURSIVE AnalyzeFrom(_, _, _)
AnalyzeFrom(prompt_lower, i, best) ==
  IF i > Len(routing_heuristics) THEN best
  ELSE LET heuristic  == routing_heuristics[i]
           confidence == MatchConfidence(heuristic.keywords, prompt_lower)
       IN  IF TypeBetter(confidence, best.best_confidence)
           THEN AnalyzeFrom(prompt_lower, i + 1,
                            [best_type        |-> heuristic.type,
                             best_confidence  |-> confidence,
                             suggested_agents |-> heuristic.primary_agents])
           ELSE AnalyzeFrom(prompt_lower, i + 1, best)

\* _analyze_prompt_type (lines 112-134)
AnalyzePromptType(prompt) ==
  LET best == AnalyzeFrom(Lower(prompt), 1,
                          [best_type |-> "general", best_confidence |-> 0,
                           suggested_agents |-> <<>>])
  IN  [prompt_type      |-> best.best_type,
       confidence       |-> IF best.best_confidence < ConfidenceCap
                            THEN best.best_confidence ELSE ConfidenceCap,
       suggested_agents |-> best.suggested_agents]

\* composite_score = (success_rate + avg_confidence) / 2 (lines 142-146),
\* in thousandths
CompositeScore(card, agent_name) ==
  LET agent_data == Get(card.agents, agent_name, <<>>)
  IN  ((Get(agent_data, "success_rate", DefaultRate)
          + Get(agent_data, "avg_confidence", DefaultRate)) * 10) \div 2

\* _get_agent_scores (lines 136-149): the items of the dict it returns
AgentScores(agent_names, card) ==
  [i \in 1..Len(Dedup(agent_names)) |->
     [agent |-> Dedup(agent_names)[i],
      score |-> CompositeScore(card, Dedup(agent_names)[i])]]

\* variant: ascending order
InsertRanked_ascending(sorted, x) ==
  LET before == { i \in 1..Len(sorted) : sorted[i].score <= x.score }
  IN  SubSeq(sorted, 1, Cardinality(before)) \o <<x>>
        \o SubSeq(sorted, Cardinality(before) + 1, Len(sorted))

\* sorted(..., key=lambda x: x[1], reverse=True) is stable: x goes after the
\* items already placed whose score is not lower
InsertRanked(sorted, x) ==
  LET before == { i \in 1..Len(sorted) : sorted[i].score >= x.score }
  IN  SubSeq(sorted, 1, Cardinality(before)) \o <<x>>
        \o SubSeq(sorted, Cardinality(before) + 1, Len(sorted))

RECURSIVE RankAgents(_)
RankAgents(items) ==
  IF items = <<>> THEN <<>>
  ELSE InsertRanked(RankAgents(SubSeq(items, 1, Len(items) - 1)),
                    items[Len(items)])

\* self.routing_heuristics.get(prompt_type, {})
HeuristicOf(prompt_type) ==
  IF \E i \in 1..Len(routing_heuristics) : routing_heuristics[i].type = prompt_type
  THEN routing_heuristics[CHOOSE i \in 1..Len(routing_heuristics) :
                            routing_heuristics[i].type = prompt_type]
  ELSE <<>>

\* _select_optimal_agents (lines 151-171)
SelectOptimalAgents(prompt_type, confidence, suggested_agents, card) ==
  IF confidence < LowConfidence
  THEN [primary_agents  |-> <<"evaluator", "vp_design">>,
        fallback_agents |-> <<"creative_director", "product_navigator">>]
  ELSE LET sorted_agents == RankAgents(AgentScores(suggested_agents, card))
       IN  [primary_agents  |->
              [i \in 1..(IF Len(sorted_agents) < 2 THEN Len(sorted_agents) ELSE 2)
                 |-> sorted_agents[i].agent],
            fallback_agents |->
              Get(HeuristicOf(prompt_type), "fallback_agents", <<"evaluator">>)]

\* variant: fallback is triggered under the low-confidence bar only
ShouldTriggerFallback_lowOnly(confidence, prompt_type) ==
  confidence < LowConfidence

\* _should_trigger_fallback (lines 173-177)
ShouldTriggerFallback(confidence, prompt_type) ==
  confidence < Get(HeuristicOf(prompt_type), "confidence_threshold",
                   DefaultThreshold)

\* run_async (lines 179-261) without the text of the report: the routing
\* decision it returns in shared_state
RoutingDecision(prompt, file) ==
  LET analysis == AnalyzePromptType(prompt)
      card     == ReadScorecard(file)
      selected == SelectOptimalAgents(analysis.prompt_type, analysis.confidence,
                                      analysis.suggested_agents, card)
  IN  [confidence   |-> analysis.confidence,
       suggested_agents |-> analysis.suggested_agents,
       shared_state |->
         [prompt_type     |-> analysis.prompt_type,
          primary_agents  |-> selected.primary_agents,
          fallback_agents |-> selected.fallback_agents,
          fallback_needed |-> ShouldTriggerFallback(analysis.confidence,
                                                    analysis.prompt_type),
          agent_scores    |-> AgentScores(selected.primary_agents
                                            \o selected.fallback_agents, card)]]

\* the answer keeps the scorecard file as it was when the prompt was routed
run_async(prompt) ==
  /\ answer' = [op |-> "run_async", prompt |-> prompt, scorecard |-> scorecard,
                result |-> RoutingDecision(prompt, scorecard)]
  /\ UNCHANGED <<orchvars, storevars, now, registry, usage_log, auxvars>>

NextDispatcher ==
  \/ ensure_scorecard_file
  \/ \E content \in OtherScorecards : put_scorecard(content)
  \/ \E prompt \in DispatcherPrompts : run_async(prompt)

SpecDispatcher == Init /\ [][NextDispatcher]_vars

\* =================================================================== claims
\* Vocabulary of the properties.  They read the call's arguments, the
\* registries and the history of agent invocations, not the orchestrator's
\* own decisions.
Registered(name) == \E i \in 1..Len(agents) : agents[i] = name
Min(S) == CHOOSE x \in S : \A y \in S : x <= y
Max(S) == CHOOSE x \in S : \A y \in S : x >= y
ReportedConfidence(result, dflt) ==
  IF "confidence" \in DOMAIN result THEN result.confidence ELSE dflt

FallbackDone == pc = "done" /\ call.op = "execute_with_pattern_fallback"
PipelineDone == pc = "done" /\ call.op = "execute_pipeline"
AgentCallDone == pc = "done" /\ call.op = "execute_agent"

\* the primary agent ran and returned a result with confidence below 0.8
PrimaryLow ==
  /\ Registered(call.primary_agent)
  /\ Len(outcomes) >= 1
  /\ outcomes[1].kind = "return"
  /\ ReportedConfidence(outcomes[1].result, 8) < 8
PrimaryConfidence == ReportedConfidence(outcomes[1].result, 8)

\* every registered pattern of the list has a registered target agent
TargetOf(pattern_name) ==
  IF "agent" \in DOMAIN patterns[pattern_name]
  THEN patterns[pattern_name].agent ELSE "vp_design"
Invocable(pattern_name) ==
  pattern_name \in DOMAIN patterns /\ Registered(TargetOf(pattern_name))
AllTargetsRegistered ==
  \A j \in 1..Len(call.fallback_patterns) :
    call.fallback_patterns[j] \in DOMAIN patterns
      => Registered(TargetOf(call.fallback_patterns[j]))

\* C1: whenever the primary agent returns a result with confidence < 0.8,
\* execute_with_pattern_fallback does not raise, whatever the fallback
\* patterns do; it returns the result of the first fallback whose confidence
\* strictly exceeds the primary's, and otherwise the primary's result.
C1_LowConfidenceNeverRaises ==
  (FallbackDone /\ PrimaryLow) =>
    /\ ret.kind = "return"
    /\ LET better == { k \in 2..Len(outcomes) :
                         /\ outcomes[k].kind = "return"
                         /\ ReportedConfidence(outcomes[k].result, 0)
                              > PrimaryConfidence }
       IN  ret.value = IF better = {} THEN outcomes[1].value
                       ELSE outcomes[Min(better)].value

\* C2: if the primary returns confidence c < 0.8 and every fallback pattern
\* of the list yields a confidence <= c, the value returned equals the
\* result the primary agent returned, field by field, for every pattern
\* type.
C2_NoImprovementReturnsPrimary ==
  ( /\ FallbackDone
    /\ PrimaryLow
    /\ AllTargetsRegistered
    /\ \A k \in 2..Len(outcomes) :
         /\ outcomes[k].kind = "return"
         /\ ReportedConfidence(outcomes[k].result, 0) <= PrimaryConfidence )
  => /\ ret.kind = "return"
     /\ heap[ret.value] = outcomes[1].result

C2_Witness ==
  /\ FallbackDone
  /\ PrimaryLow
  /\ Len(outcomes) = 3
  /\ Invocable(call.fallback_patterns[1])
  /\ "type" \in DOMAIN patterns[call.fallback_patterns[1]]
  /\ patterns[call.fallback_patterns[1]].type = "output_transformation"
  /\ \A k \in 2..3 : /\ outcomes[k].kind = "return"
                      /\ ReportedConfidence(outcomes[k].result, 0)
                           <= PrimaryConfidence
  /\ ReportedConfidence(outcomes[2].result, 0) = PrimaryConfidence
  /\ ret = Returned(outcomes[1].value)

\* the first pattern of the list is registered, its target agent ran right
\* after the primary and returned a confidence above the primary's
FirstFallbackImproves ==
  /\ FallbackDone
  /\ PrimaryLow
  /\ mem0 = <<>>
  /\ Len(call.fallback_patterns) >= 1
  /\ Invocable(call.fallback_patterns[1])
  /\ Len(outcomes) >= 2
  /\ outcomes[2].kind = "return"
  /\ ReportedConfidence(outcomes[2].result, 0) > PrimaryConfidence

PrimaryEntry(e) ==
  /\ e.agent_name = call.primary_agent
  /\ e.input_prompt = call.input_prompt
  /\ e.output = outcomes[1].value
  /\ e.pattern_applied = None

PrimaryRaised ==
  /\ FallbackDone
  /\ \/ ~Registered(call.primary_agent)
     \/ Len(outcomes) >= 1 /\ outcomes[1].kind = "raise"
PrimaryException ==
  IF Registered(call.primary_agent) THEN outcomes[1].exc
  ELSE [type |-> "ValueError", agent |-> call.primary_agent, at |-> 0]
AfterPrimary(history) ==
  IF Registered(call.primary_agent) THEN SubSeq(history, 2, Len(history))
  ELSE history
RECURSIVE InvocableFrom(_, _)
InvocableFrom(fps, j) ==
  IF j > Len(fps) THEN <<>>
  ELSE IF Invocable(fps[j]) THEN <<fps[j]>> \o InvocableFrom(fps, j + 1)
  ELSE InvocableFrom(fps, j + 1)

\* C4: if the primary agent raises, the fallback patterns are tried in list
\* order and the result of the first one that does not raise is returned,
\* whatever its confidence; if every fallback raises, or there is none,
\* the exception that reaches the caller is the primary's.
C4_RecoveryInOrder ==
  PrimaryRaised =>
    LET tried == AfterPrimary(outcomes)
        ran   == AfterPrimary(invoked)
        cand  == InvocableFrom(call.fallback_patterns, 1)
    IN  /\ Len(ran) = Len(tried)
        /\ Len(tried) <= Len(cand)
        /\ \A k \in 1..Len(ran) : ran[k].agent_name = TargetOf(cand[k])
        /\ \A k \in 1..(Len(tried) - 1) : tried[k].kind = "raise"
        /\ IF Len(tried) >= 1 /\ tried[Len(tried)].kind = "return"
           THEN ret = Returned(tried[Len(tried)].value)
           ELSE Len(tried) = Len(cand) /\ ret = Raised(PrimaryException)

C4_Witness ==
  /\ PrimaryRaised
  /\ Len(outcomes) = 3
  /\ \A k \in 1..3 : outcomes[k].kind = "raise"
  /\ ret = Raised(outcomes[1].exc)

\* C5: execute_pipeline never raises: if the agent of stage k raises or is
\* not registered, no later stage runs and the call returns a result with
\* an `error` field and the results of stages 1..k-1.
FailingStages ==
  { k \in 1..Len(call.agent_sequence) :
      \/ ~Registered(call.agent_sequence[k])
      \/ k <= Len(outcomes) /\ outcomes[k].kind = "raise" }
ResultsUpTo(n) ==
  [name \in { call.agent_sequence[i] : i \in 1..n } |->
     outcomes[Max({ i \in 1..n : call.agent_sequence[i] = name })].value]

C5_PipelineNeverRaises ==
  PipelineDone =>
    /\ ret.kind = "return"
    /\ FailingStages # {} =>
         LET k == Min(FailingStages)
         IN  /\ Len(invoked) <= k
             /\ Len(outcomes) <= k
             /\ "error" \in DOMAIN ret.value
             /\ ret.value.results = ResultsUpTo(k - 1)

C5_Witness ==
  /\ PipelineDone
  /\ Len(outcomes) = 2
  /\ outcomes[1].kind = "return"
  /\ outcomes[2].kind = "raise"
  /\ "error" \in DOMAIN ret.value
  /\ DOMAIN ret.value.results = {call.agent_sequence[1]}

\* the text a stage hands on: its output, or its enhanced_output when the
\* output is missing or empty
HasText(result) ==
  \/ "output" \in DOMAIN result /\ result.output # <<>>
  \/ "enhanced_output" \in DOMAIN result /\ result.enhanced_output # <<>>
TextOf(result) ==
  IF "output" \in DOMAIN result /\ result.output # <<>> THEN result.output
  ELSE IF "enhanced_output" \in DOMAIN result THEN result.enhanced_output
  ELSE <<>>
InPipeline == call.op = "execute_pipeline"
PipelineSucceeded == PipelineDone /\ "error" \notin DOMAIN ret.value

CarriedInto(k) ==
  LET src == { j \in 1..(k - 1) : HasText(outcomes[j].result) }
  IN  IF src = {} THEN call.input_prompt
      ELSE TextOf(outcomes[Max(src)].result)

StageState(result) ==
  IF "shared_state" \in DOMAIN result THEN result.shared_state ELSE <<>>
Writers(key) ==
  { j \in 1..Len(outcomes) : /\ outcomes[j].kind = "return"
                             /\ key \in DOMAIN StageState(outcomes[j].result) }

\* C7: every key/value of the shared_state map of stage k's result is in
\* the context's SharedState before stage k+1's agent is invoked, and each
\* key holds the value of the last stage that wrote it.
C7_SharedStateMerged ==
  InPipeline =>
    /\ (pc = "await" /\ Len(invoked) >= 2) =>
         LET upd == StageState(outcomes[Len(invoked) - 1].result)
         IN  \A key \in DOMAIN upd :
               key \in DOMAIN shared_state /\ shared_state[key] = upd[key]
    /\ DOMAIN shared_state =
         DOMAIN ss0 \cup UNION { DOMAIN StageState(outcomes[j].result) :
                                  j \in { i \in 1..Len(outcomes) :
                                            outcomes[i].kind = "return" } }
    /\ \A key \in DOMAIN shared_state :
         shared_state[key] =
           IF Writers(key) = {} THEN ss0[key]
           ELSE StageState(outcomes[Max(Writers(key))].result)[key]

C7_Witness ==
  /\ InPipeline
  /\ pc = "await"
  /\ Len(invoked) = 2
  /\ "k1" \in DOMAIN ss0 /\ ss0.k1 = "v0"
  /\ "k1" \in DOMAIN StageState(outcomes[1].result)
  /\ "k0" \in DOMAIN ss0
  /\ shared_state.k1 = "v2"
  /\ shared_state.k0 = "v0"

\* C8: execute_pipeline called with an empty agent sequence runs no agent,
\* appends no memory entry, leaves SharedState unchanged and returns the
\* original prompt as final_output with empty results, whatever agents are
\* registered.
C8_EmptySequenceNoOp ==
  (PipelineDone /\ call.sequence_arg = Some(<<>>)) =>
    /\ invoked = <<>>
    /\ memory = mem0
    /\ shared_state = ss0
    /\ ret.kind = "return"
    /\ "error" \notin DOMAIN ret.value
    /\ ret.value.final_output = Some(call.input_prompt)
    /\ ret.value.results = <<>>

C8_Witness ==
  /\ PipelineDone
  /\ call.sequence_arg = Some(<<>>)
  /\ Len(agents) = 2
  /\ memory # <<>>
  /\ shared_state # <<>>

\* C9: execute_agent on a registered agent appends exactly one MemoryEntry
\* per invocation: on success one with the agent's reported confidence
\* (0.8 when omitted), and the result is returned; when the agent raises,
\* one with confidence 0.0 and an error payload, and the same exception is
\* re-raised.
C9_OneEntryPerInvocation ==
  (call.op = "execute_agent" /\ Registered(call.agent_name)) =>
    /\ pc = "await" => memory = mem0
    /\ pc = "done" =>
         /\ Len(memory) = Len(mem0) + 1
         /\ SubSeq(memory, 1, Len(mem0)) = mem0
         /\ LET e == memory[Len(memory)]
            IN  /\ e.agent_name = call.agent_name
                /\ e.input_prompt = call.input_prompt
                /\ e.pattern_applied = None
                /\ IF outcomes[1].kind = "return"
                   THEN /\ e.confidence
                            = ReportedConfidence(outcomes[1].result, 8)
                        /\ heap[e.output] = outcomes[1].result
                        /\ ret = Returned(e.output)
                   ELSE /\ e.confidence = 0
                        /\ DOMAIN heap[e.output] = {"error"}
                        /\ ret = Raised(outcomes[1].exc)

C9_Witness ==
  /\ AgentCallDone
  /\ Registered(call.agent_name)
  /\ mem0 # <<>>
  /\ outcomes[1].kind = "raise"
  /\ ret.kind = "raise"
  /\ memory[Len(memory)].confidence = 0

\* C10: execute_agent with an agent name that is not registered fails with
\* the not-registered error, invokes no agent and leaves memory and
\* SharedState unchanged.
C10_UnregisteredAgentFails ==
  (call.op = "execute_agent" /\ ~Registered(call.agent_name)) =>
    /\ pc = "done"
    /\ ret = Raised([type |-> "ValueError", agent |-> call.agent_name,
                     at |-> 0])
    /\ invoked = <<>>
    /\ outcomes = <<>>
    /\ memory = mem0
    /\ shared_state = ss0

C10_Witness ==
  /\ AgentCallDone
  /\ ~Registered(call.agent_name)
  /\ agents # <<>>
  /\ memory # <<>>
  /\ shared_state # <<>>

\* C11: in execute_agent a requested tool name that is not registered does
\* not fail the call: the agent is invoked, with exactly the requested tools
\* that are registered, the MemoryEntry's tools_used lists exactly those,
\* and the call ends as the agent's run ended.
RequestedAndRegistered ==
  { t \in { call.tools[i] : i \in 1..Len(call.tools) } : t \in tools }
ListsExactly(s, S) ==
  /\ { s[i] : i \in 1..Len(s) } = S
  /\ \A i, j \in 1..Len(s) : s[i] = s[j] => i = j

C11_UnregisteredToolDropped ==
  (call.op = "execute_agent" /\ Registered(call.agent_name)) =>
    /\ Len(invoked) = 1
    /\ invoked[1].agent_name = call.agent_name
    /\ ListsExactly(invoked[1].available_tools, RequestedAndRegistered)
    /\ pc = "done" =>
         /\ ListsExactly(memory[Len(memory)].tools_used,
                         RequestedAndRegistered)
         /\ ret.kind = outcomes[1].kind

C11_Witness ==
  /\ AgentCallDone
  /\ Registered(call.agent_name)
  /\ call.tools = <<"t2", "t1">>
  /\ tools = {"t1"}
  /\ ret.kind = "return"
  /\ invoked[1].available_tools = <<"t1">>
  /\ memory[Len(memory)].tools_used = <<"t1">>

\* C12: when the primary agent's result reports a confidence >= 0.8, or
\* none, execute_with_pattern_fallback returns that result, invokes no
\* fallback pattern's agent and appends exactly one memory entry, whatever
\* confidence_threshold the patterns of the list are configured with.
PrimaryMeetsBar ==
  /\ call.op = "execute_with_pattern_fallback"
  /\ Registered(call.primary_agent)
  /\ Len(outcomes) >= 1
  /\ outcomes[1].kind = "return"
  /\ ReportedConfidence(outcomes[1].result, 8) >= 8

C12_HighConfidenceReturnsPrimary ==
  PrimaryMeetsBar =>
    /\ pc = "done"
    /\ ret = Returned(outcomes[1].value)
    /\ heap[ret.value] = outcomes[1].result
    /\ Len(invoked) = 1
    /\ Len(outcomes) = 1
    /\ Len(memory) = Len(mem0) + 1
    /\ SubSeq(memory, 1, Len(mem0)) = mem0
    /\ memory[Len(memory)].agent_name = call.primary_agent
    /\ memory[Len(memory)].pattern_applied = None

\* the primary omits its confidence and the first fallback pattern, whose
\* agent is registered, is configured with a threshold of 0.9
C12_Witness ==
  /\ FallbackDone
  /\ PrimaryMeetsBar
  /\ "confidence" \notin DOMAIN outcomes[1].result
  /\ call.fallback_patterns # <<>>
  /\ Invocable(call.fallback_patterns[1])
  /\ "confidence_threshold" \in DOMAIN patterns[call.fallback_patterns[1]]
  /\ patterns[call.fallback_patterns[1]].confidence_threshold > 8
  /\ ret.kind = "return"

\* C13: in execute_with_pattern_fallback a fallback pattern name that is not
\* registered is skipped: no agent is invoked for it and the next name of
\* the list is tried.  In the low-confidence path and in the primary-raised
\* path alike, the agents invoked after the primary are those of the
\* registered patterns of the list, in list order, and the call gives back
\* the primary's own outcome only after every registered pattern was tried.
KnownPatterns ==
  SelectSeq(call.fallback_patterns, LAMBDA n : n \in DOMAIN patterns)
PrimaryFailed ==
  \/ ~Registered(call.primary_agent)
  \/ Len(outcomes) >= 1 /\ outcomes[1].kind = "raise"
NoFallbackRaised ==
  \A k \in 2..Len(outcomes) : outcomes[k].kind = "return"
PrimaryOutcome ==
  IF PrimaryFailed THEN Raised(PrimaryException)
  ELSE Returned(outcomes[1].value)

C13_UnregisteredPatternSkipped ==
  (/\ call.op = "execute_with_pattern_fallback"
   /\ AllTargetsRegistered
   /\ PrimaryFailed \/ (PrimaryLow /\ NoFallbackRaised)) =>
    LET ran == AfterPrimary(invoked)
    IN  /\ Len(ran) <= Len(KnownPatterns)
        /\ \A k \in 1..Len(ran) :
             ran[k].agent_name = TargetOf(KnownPatterns[k])
        /\ pc = "done" =>
             \/ /\ ret = PrimaryOutcome
                /\ Len(ran) = Len(KnownPatterns)
             \/ /\ Len(ran) >= 1
                /\ ret = Returned(outcomes[Len(outcomes)].value)

\* an unregistered name precedes a registered one, in either path
C13_Witness ==
  /\ FallbackDone
  /\ AllTargetsRegistered
  /\ Len(call.fallback_patterns) = 2
  /\ call.fallback_patterns[1] \notin DOMAIN patterns
  /\ call.fallback_patterns[2] \in DOMAIN patterns
  /\ PrimaryLow
  /\ NoFallbackRaised
  /\ Len(invoked) = 2
  /\ ret = Returned(outcomes[1].value)

C13_WitnessRaised ==
  /\ FallbackDone
  /\ AllTargetsRegistered
  /\ Len(call.fallback_patterns) = 2
  /\ call.fallback_patterns[1] \notin DOMAIN patterns
  /\ call.fallback_patterns[2] \in DOMAIN patterns
  /\ PrimaryFailed
  /\ Len(outcomes) = 2
  /\ ret = Returned(outcomes[2].value)

\* C14: bounded retention.  After any sequence of appends through
\* FusionContext.store_interaction or through
\* ExecutionChainOrchestrator._store_in_memory, neither store holds more
\* than 100 entries, and each holds its entries oldest first.
OldestFirst(mem) ==
  \A i, j \in 1..Len(mem) : i < j => mem[i].timestamp < mem[j].timestamp

C14_BoundedRetention ==
  /\ Len(memory) <= RetentionCap
  /\ Len(chain_memory) <= RetentionCap
  /\ OldestFirst(memory)
  /\ OldestFirst(chain_memory)

\* what does hold: _store_in_memory keeps at most 100 entries and, when the
\* store is full, removes the oldest entry and no other
C14_ChainStoreFIFO ==
  [][chain_memory' # chain_memory =>
       /\ Len(chain_memory') <= RetentionCap
       /\ IF Len(chain_memory) < RetentionCap
          THEN SubSeq(chain_memory', 1, Len(chain_memory)) = chain_memory
          ELSE /\ Len(chain_memory') = RetentionCap
               /\ SubSeq(chain_memory', 1, RetentionCap - 1)
                    = Tail(chain_memory)]_vars

\* C15: a MemoryEntry is never mutated after it is appended.  The entry
\* execute_agent appended for an agent run that returned still has the
\* fields it was appended with, its stored output included: the output is
\* the dict as the agent returned it, also after _apply_pattern has applied
\* an output_transformation pattern to that result; and the entries that
\* were there when the call started are unchanged.
AppendedFor(k) ==
  { i \in (Len(mem0) + 1)..Len(memory) :
      /\ memory[i].output = outcomes[k].value
      /\ memory[i].pattern_applied = None }

C15_EntriesNeverMutated ==
  pc # "idle" =>
    /\ SubSeq(memory, 1, Len(mem0)) = mem0
    /\ \A k \in 1..Len(outcomes) :
         outcomes[k].kind = "return" =>
           \E i \in AppendedFor(k) :
             /\ memory[i].agent_name = invoked[k].agent_name
             /\ memory[i].input_prompt = invoked[k].input_prompt
             /\ memory[i].tools_used = invoked[k].available_tools
             /\ memory[i].confidence
                  = ReportedConfidence(outcomes[k].result, 8)
             /\ heap[memory[i].output] = outcomes[k].result

\* C16: every MemoryEntry in the store has a confidence in [0.0, 1.0] and
\* an execution_time >= 0, whatever confidence the agents' results carry.
C16_EntryRanges ==
  \A i \in 1..Len(memory) :
    /\ memory[i].confidence >= 0
    /\ memory[i].confidence <= 10
    /\ memory[i].execution_time >= 0

\* C17: for every pattern of the registry, the built-in ones included,
\* following fallback_patterns transitively terminates: no pattern is
\* reachable from itself through fallback lists, in the registry as
\* constructed and after any register_pattern.
FallbacksOf(n) ==
  IF n \in DOMAIN registry.fallback_patterns
  THEN { registry.fallback_patterns[n][i] :
           i \in 1..Len(registry.fallback_patterns[n]) }
  ELSE {}
RECURSIVE FallbackClosure(_)
FallbackClosure(S) ==
  LET more == S \cup UNION { FallbacksOf(n) : n \in S }
  IN  IF more = S THEN S ELSE FallbackClosure(more)

C17_FallbackChainsTerminate ==
  \A n \in DOMAIN registry.fallback_patterns :
    n \notin FallbackClosure(FallbacksOf(n))

\* C18: find_best_match returns, for every prompt, the registered pattern
\* with the highest number of its trigger keywords occurring in the
\* lower-cased prompt; among the patterns with the highest count the first
\* registered wins; when no pattern has a positive count the default
\* pattern (design_enhancement) is returned.
CountIn(keywords, text) ==
  Cardinality({ i \in 1..Len(keywords) : Occurs(keywords[i], Lower(text)) })
BestByCount(ps, text) ==
  LET count(i) == CountIn(ps[i].keywords, text)
      best == { i \in 1..Len(ps) :
                  count(i) > 0 /\ \A j \in 1..Len(ps) : count(j) <= count(i) }
  IN  IF best = {} THEN "design_enhancement" ELSE ps[Min(best)].name
\* the patterns the registry held when asked, in registration order, with
\* their keywords
RegisteredKeywordPatterns ==
  [i \in 1..Len(answer.order) |->
     [name |-> answer.order[i],
      keywords |-> IF "keywords" \in DOMAIN answer.patterns[answer.order[i]]
                   THEN answer.patterns[answer.order[i]].keywords
                   ELSE <<>>]]

RECURSIVE SumConfidence(_)
SumConfidence(calls) ==
  IF calls = <<>> THEN 0
  ELSE calls[1].confidence + SumConfidence(Tail(calls))
Successes(calls) == Cardinality({ i \in 1..Len(calls) : calls[i].success })
StatsSummarise(stats, calls) ==
  /\ stats.usage_count = Len(calls)
  /\ stats.success_count = Successes(calls)
  /\ stats.success_count <= stats.usage_count
  /\ stats.avg_confidence.den > 0
  /\ stats.avg_confidence.num * Len(calls)
       = SumConfidence(calls) * stats.avg_confidence.den
  /\ calls = <<>> => stats.avg_confidence.num = 0

\* the claim: all the usages ever recorded for the name count
C20_MeanOfAllUsages ==
  \A n \in DOMAIN usage_log :
    n \in DOMAIN registry.pattern_usage_stats =>
      StatsSummarise(registry.pattern_usage_stats[n], usage_log[n].calls)

\* C20, as it holds: the statistics summarise the usages recorded since the
\* pattern was last registered; register_pattern resets them to zero.
UsagesSinceRegistration(n) ==
  SubSeq(usage_log[n].calls, usage_log[n].since + 1, Len(usage_log[n].calls))

C20_MeanSinceRegistration ==
  \A n \in DOMAIN usage_log :
    /\ n \in DOMAIN registry.pattern_usage_stats =>
         StatsSummarise(registry.pattern_usage_stats[n],
                        UsagesSinceRegistration(n))
    /\ n \notin DOMAIN registry.pattern_usage_stats =>
         usage_log[n].calls = <<>>

\* three usages with different confidences, not all successful
C20_Witness ==
  /\ "p1" \in DOMAIN registry.pattern_usage_stats
  /\ registry.pattern_usage_stats["p1"].usage_count = 3
  /\ registry.pattern_usage_stats["p1"].success_count = 2
  /\ SumConfidence(UsagesSinceRegistration("p1")) = 13

\* C19: relevant_memory(query, limit) returns at most `limit` entries, in
\* non-increasing order of relevance score (the word-overlap ratio with the
\* query), entries of equal score most recent first, and the empty list
\* when memory is empty.
EntryText(e) ==
  IF "input_text" \in DOMAIN e THEN e.input_text ELSE e.input_prompt
\* the ratio's numerator; its denominator is the same for every entry
Overlap(query, e) ==
  Cardinality(WordSet(Lower(query)) \cap WordSet(Lower(EntryText(e))))
Asked ==
  answer.op \in {"AgentMemory.get_relevant_memory",
                 "FusionContext.get_relevant_memory"}

\* the claim, of both functions it names
C19_RelevanceThenRecency ==
  Asked =>
    LET r == answer.result
    IN  /\ Len(r) <= answer.limit
        /\ \A i, j \in 1..Len(r) :
             i < j =>
               /\ Overlap(answer.query, r[i]) >= Overlap(answer.query, r[j])
               /\ Overlap(answer.query, r[i]) = Overlap(answer.query, r[j])
                    => r[i].timestamp > r[j].timestamp
        /\ answer.memory = <<>> => r = <<>>

\* C19, as it holds.  AgentMemory.get_relevant_memory returns the entries
\* whose score exceeds 0.1, at most `limit` of them and those of highest
\* score, in non-increasing order of score, entries of equal score oldest
\* first.  FusionContext.get_relevant_memory computes no score: it returns
\* the most recent entries whose prompt contains a word of the query, most
\* recent first, at most `limit` of them but one when limit is 0.  Both
\* return the empty list when memory is empty.
Relevant(query, mem) ==
  { i \in 1..Len(mem) :
      Overlap(query, mem[i]) * 10 > Max({Cardinality(WordSet(Lower(query))), 1}) }
Containing(query, mem) ==
  { i \in 1..Len(mem) :
      \E w \in WordSet(Lower(query)) : Occurs(w, Lower(EntryText(mem[i]))) }

C19_RelevanceThenAge ==
  /\ answer.op = "AgentMemory.get_relevant_memory" =>
       LET r == answer.result
           rel == Relevant(answer.query, answer.memory)
       IN  /\ Len(r) = Min({answer.limit, Cardinality(rel)})
           /\ \A i \in 1..Len(r) : \E k \in rel : r[i] = answer.memory[k]
           /\ \A i, j \in 1..Len(r) :
                i < j =>
                  /\ Overlap(answer.query, r[i]) >= Overlap(answer.query, r[j])
                  /\ Overlap(answer.query, r[i]) = Overlap(answer.query, r[j])
                       => r[i].timestamp < r[j].timestamp
           /\ \A k \in rel :
                (\A i \in 1..Len(r) : r[i] # answer.memory[k]) =>
                  \A i \in 1..Len(r) :
                    Overlap(answer.query, r[i])
                      >= Overlap(answer.query, answer.memory[k])
           /\ answer.memory = <<>> => r = <<>>
  /\ answer.op = "FusionContext.get_relevant_memory" =>
       LET r == answer.result
           con == Containing(answer.query, answer.memory)
       IN  /\ Len(r) = Min({Max({answer.limit, 1}), Cardinality(con)})
           /\ \A i \in 1..Len(r) : \E k \in con : r[i] = answer.memory[k]
           /\ \A i, j \in 1..Len(r) : i < j => r[i].timestamp > r[j].timestamp
           /\ \A k \in con :
                (\A i \in 1..Len(r) : r[i] # answer.memory[k]) =>
                  \A i \in 1..Len(r) :
                    r[i].timestamp > answer.memory[k].timestamp
           /\ answer.memory = <<>> => r = <<>>

\* two entries of equal score are returned, the older one first
C19_Witness ==
  /\ answer.op = "AgentMemory.get_relevant_memory"
  /\ Len(answer.result) = 2
  /\ Overlap(answer.query, answer.result[1])
       = Overlap(answer.query, answer.result[2])
  /\ answer.result[1].timestamp < answer.result[2].timestamp
  /\ Len(answer.memory) = 3

\* the stages whose agent returned a result that carries an `error` field
ErrorStages ==
  { k \in 1..Len(outcomes) :
      outcomes[k].kind = "return" /\ "error" \in DOMAIN outcomes[k].result }

\* C25: in execute_pipeline a stage whose agent result carries an `error`
\* field is a failed stage: no later stage is executed and the pipeline
\* result carries an `error` field itself; the pipeline never reports
\* success when one of its stages failed.
C25_ErrorResultFailsPipeline ==
  (PipelineDone /\ ErrorStages # {}) =>
    /\ Len(invoked) <= Min(ErrorStages)
    /\ ret.kind = "return"
    /\ "error" \in DOMAIN ret.value

\* the stages of the pipeline that were executed and returned a result
ExecutedStages == { k \in 1..Len(outcomes) : outcomes[k].kind = "return" }
StagesNamed(name) == { k \in ExecutedStages : call.agent_sequence[k] = name }

\* C27: the `results` map of execute_pipeline holds one entry per distinct
\* agent name executed: every occurrence of a name in the sequence is
\* executed and logged to memory, in order, but the map retains only the
\* result of the name's last executed occurrence, so it can hold fewer
\* results than stages were executed.
C27_ResultsPerDistinctName ==
  PipelineDone =>
    /\ ret.kind = "return"
    /\ DOMAIN ret.value.results
         = { call.agent_sequence[k] : k \in ExecutedStages }
    /\ \A name \in DOMAIN ret.value.results :
         ret.value.results[name] = outcomes[Max(StagesNamed(name))].value
    /\ Cardinality(DOMAIN ret.value.results) <= Cardinality(ExecutedStages)
    /\ Len(memory) = Len(mem0) + Len(outcomes)
    /\ \A k \in 1..Len(outcomes) :
         /\ memory[Len(mem0) + k].agent_name = call.agent_sequence[k]
         /\ k \in ExecutedStages =>
              memory[Len(mem0) + k].output = outcomes[k].value

C27_Witness ==
  /\ PipelineDone
  /\ Len(call.agent_sequence) = 2
  /\ call.agent_sequence[1] = call.agent_sequence[2]
  /\ ExecutedStages = {1, 2}
  /\ ret.kind = "return"
  /\ "error" \notin DOMAIN ret.value
  /\ Cardinality(DOMAIN ret.value.results) = 1
  /\ ret.value.results[call.agent_sequence[1]] = outcomes[2].value
  /\ outcomes[2].result # outcomes[1].result
  /\ Len(memory) = Len(mem0) + 2

\* C26: execute_with_pattern_fallback always terminates, whatever the
\* fallback lists of the registered patterns are (they are never followed):
\* with n names in fallback_patterns it invokes an agent at most 1 + 2n
\* times, the primary once and each name of the list at most once in the
\* low-confidence pass and once in the recovery pass; the call is either
\* finished or waiting for the one agent it invoked last.
C26_BoundedInvocations ==
  call.op = "execute_with_pattern_fallback" =>
    LET n == Len(call.fallback_patterns)
        fallbackTargets ==
          { TargetOf(call.fallback_patterns[j]) :
              j \in { i \in 1..n : call.fallback_patterns[i] \in DOMAIN patterns } }
    IN  /\ Len(invoked) <= 1 + 2 * n
        /\ pc \in {"await", "done"}
        /\ pc = "await" => Len(invoked) = Len(outcomes) + 1
        /\ pc = "done" => Len(invoked) = Len(outcomes)
        /\ \A k \in 1..Len(invoked) :
             IF k = 1 /\ Registered(call.primary_agent)
             THEN invoked[k].agent_name = call.primary_agent
             ELSE invoked[k].agent_name \in fallbackTargets

\* the bound is met: two fallbacks, five invocations, the fallback lists of
\* the registered patterns form a cycle
C26_Witness ==
  /\ FallbackDone
  /\ Len(call.fallback_patterns) = 2
  /\ Len(invoked) = 5
  /\ Len(outcomes) = 5
  /\ \E name \in DOMAIN patterns :
       /\ "fallback_patterns" \in DOMAIN patterns[name]
       /\ \E j \in 1..Len(patterns[name].fallback_patterns) :
            patterns[name].fallback_patterns[j] = name

\* the last operation imported a document into a context
Imported == answer.op = "import_memory" /\ answer.file # NoFile
ImportedDoc == answer.file[1]
EmptyContext == [memory |-> <<>>, pattern_memory |-> <<>>, shared_state |-> <<>>]

\* the document was written by export_memory
IsExport(doc) == "session_id" \in DOMAIN doc

Accepted(entry_data) ==
  /\ {"timestamp", "agent_name", "input_prompt", "output", "confidence",
      "tools_used", "execution_time"} \subseteq DOMAIN entry_data
  /\ DOMAIN entry_data \subseteq
       {"timestamp", "agent_name", "input_prompt", "output", "confidence",
        "tools_used", "execution_time", "pattern_applied"}

DocEntries(doc) == IF "memory" \in DOMAIN doc THEN doc.memory ELSE <<>>

\* the position of the first entry of the document that is rejected, or the
\* length of the document plus one
FirstRejected(doc) ==
  Min({ j \in 1..Len(DocEntries(doc)) : ~Accepted(DocEntries(doc)[j]) }
        \cup { Len(DocEntries(doc)) + 1 })

\* the entry import_memory builds from an accepted document entry
EntryOf(entry_data) ==
  [k \in DOMAIN entry_data \cup {"pattern_applied"} |->
     IF k \in DOMAIN entry_data THEN entry_data[k] ELSE None]

\* C29: FusionContext.import_memory never raises, and it appends: memory
\* afterwards is memory before followed by the entries of the document that
\* precede the first rejected one; when an entry is rejected pattern_memory
\* and shared_state are left as they were, although entries were added.
C29_ImportAppendsUntilFailure ==
  Imported =>
    LET j == FirstRejected(ImportedDoc)
    IN  /\ answer.outcome = "returned"
        /\ Len(answer.after.memory) = Len(answer.before.memory) + j - 1
        /\ \A i \in 1..Len(answer.before.memory) :
             answer.after.memory[i] = answer.before.memory[i]
        /\ \A i \in 1..(j - 1) :
             answer.after.memory[Len(answer.before.memory) + i]
               = EntryOf(DocEntries(ImportedDoc)[i])
        /\ j <= Len(DocEntries(ImportedDoc)) =>
             /\ answer.after.pattern_memory = answer.before.pattern_memory
             /\ answer.after.shared_state = answer.before.shared_state

\* a document whose second entry is rejected was imported into a context
\* that held an entry, pattern data and shared state
C29_Witness ==
  /\ Imported
  /\ FirstRejected(ImportedDoc) = 2
  /\ Len(DocEntries(ImportedDoc)) = 2
  /\ Len(answer.before.memory) = 1
  /\ Len(answer.after.memory) = 2
  /\ answer.before.shared_state # <<>>
  /\ answer.before.pattern_memory # <<>>
  /\ "shared_state" \in DOMAIN ImportedDoc
  /\ answer.after.shared_state = answer.before.shared_state

\* the concurrent calls whose agent was invoked, and those of them that ended
InvokedTasks == { t \in Tasks : tasks[t].state # "new" /\ tasks[t].frame # NoFrame }
EndedTasks   == { t \in InvokedTasks : tasks[t].state = "done" }

\* the entries appended since the first of the calls started
AppendedSince == SubSeq(memory, Len(mem0) + 1, Len(memory))

\* entry e pairs the agent name, the prompt and the result of call t
PairsWith(e, t) ==
  /\ e.agent_name = tasks[t].agent_name
  /\ e.input_prompt = tasks[t].input_prompt
  /\ IF tasks[t].out[1].kind = "return"
     THEN /\ heap[e.output] = tasks[t].out[1].result
          /\ tasks[t].ret = [kind |-> "return", value |-> e.output]
     ELSE /\ DOMAIN heap[e.output] = {"error"}
          /\ e.confidence = 0
          /\ tasks[t].ret.kind = "raise"

\* C28: two execute_agent calls running concurrently on one orchestrator
\* and context, interleaved at the awaits only, each append exactly one
\* MemoryEntry pairing its own agent name, prompt and result: the entries
\* appended are, one for one, those of the calls that ended, the earlier
\* entries are kept, and when both calls have ended memory is two entries
\* longer than it was.
C28_ConcurrentCallsAppendOwnEntry ==
  (~NoneStarted) =>
    /\ Len(memory) = Len(mem0) + Cardinality(EndedTasks)
    /\ SubSeq(memory, 1, Len(mem0)) = mem0
    /\ \E place \in [1..Cardinality(EndedTasks) -> EndedTasks] :
         /\ \A i, j \in DOMAIN place : place[i] = place[j] => i = j
         /\ \A i \in DOMAIN place : PairsWith(AppendedSince[i], place[i])
    /\ EndedTasks = Tasks => Len(memory) = Len(mem0) + 2

\* both calls were waiting for their agents at the same time, the call
\* started last ended first, and memory held an entry before
C28_Witness ==
  /\ EndedTasks = Tasks
  /\ mem0 # <<>>
  /\ Len(memory) = Len(mem0) + 2
  /\ tasks[1].frame.start_time = tasks[2].frame.start_time
  /\ tasks[1].input_prompt # tasks[2].input_prompt
  /\ tasks[1].agent_name # tasks[2].agent_name
  /\ memory[Len(mem0) + 1].input_prompt = tasks[2].input_prompt
  /\ memory[Len(mem0) + 2].input_prompt = tasks[1].input_prompt
  /\ tasks[1].out[1].kind = "return"
  /\ tasks[2].out[1].kind = "raise"

\* the prompt and the generated output a run recorded
RunPrompt(run) == IF "input" \in DOMAIN run THEN run.input ELSE <<>>
RunScore(run) ==
  IF "result" \in DOMAIN run /\ "overall_score" \in DOMAIN run.result
  THEN run.result.overall_score ELSE 0
RunOutput(run) ==
  IF /\ "result" \in DOMAIN run
     /\ "code" \in DOMAIN run.result
     /\ "output" \in DOMAIN run.result.code
  THEN run.result.code.output ELSE <<>>

\* the positions of the entries to promote, in scan order
Promotable(mem) ==
  { i \in 1..Len(mem) :
      RunScore(mem[i]) >= 95 /\ RunPrompt(mem[i]) # <<>>
        /\ RunOutput(mem[i]) # <<>> }
RECURSIVE InOrder(_)
InOrder(S) == IF S = {} THEN <<>> ELSE <<Min(S)>> \o InOrder(S \ {Min(S)})

\* C23: promote_from_memory(entries) completes without error and returns,
\* in scan order, exactly one new pattern for each entry whose overall
\* quality score is >= 0.95 and whose prompt and output are both non-empty,
\* capturing that prompt and output verbatim, and no pattern for any other
\* entry.
C23_PromotesQualifyingEntries ==
  answer.op = "promote_from_memory" =>
    /\ answer.outcome.kind = "return"
    /\ LET order == InOrder(Promotable(answer.memory))
       IN  /\ Len(answer.outcome.value) = Len(order)
           /\ \A k \in 1..Len(order) :
                /\ answer.outcome.value[k].source_prompt
                     = RunPrompt(answer.memory[order[k]])
                /\ answer.outcome.value[k].generated_code
                     = RunOutput(answer.memory[order[k]])

\* ---------------------------------------------------------------------------
\* the dispatcher

Routed == answer /= NoAnswer /\ answer.op = "run_async"

\* 0.15 for every keyword of heuristic i that occurs in the lower-cased prompt
TypeScore(i, prompt) ==
  15 * Cardinality({ k \in 1..Len(routing_heuristics[i].keywords) :
                       Occurs(routing_heuristics[i].keywords[k], Lower(prompt)) })

TopScore(prompt) ==
  CHOOSE s \in { TypeScore(i, prompt) : i \in 1..Len(routing_heuristics) } :
    \A i \in 1..Len(routing_heuristics) : TypeScore(i, prompt) <= s

\* the first registered type that has the highest score
FirstTop(prompt) ==
  CHOOSE i \in 1..Len(routing_heuristics) :
    /\ TypeScore(i, prompt) = TopScore(prompt)
    /\ \A j \in 1..(i - 1) : TypeScore(j, prompt) < TopScore(prompt)

\* C21: the dispatcher classifies a prompt as the first registered type with
\* the highest score, the score being 0.15 per keyword of the type occurring
\* in the lower-cased prompt; the confidence is that score capped at 1.0; a
\* prompt no keyword matches is "general" with confidence 0.0 and no
\* suggested agent
C21_ClassifiesByKeywordScore ==
  Routed =>
    LET prompt == answer.prompt
        r      == answer.result
    IN  IF TopScore(prompt) = 0
        THEN /\ r.shared_state.prompt_type = "general"
             /\ r.confidence = 0
             /\ r.suggested_agents = <<>>
        ELSE /\ r.shared_state.prompt_type = routing_heuristics[FirstTop(prompt)].type
             /\ r.confidence = (IF TopScore(prompt) > 100 THEN 100
                                ELSE TopScore(prompt))
             /\ r.suggested_agents =
                  routing_heuristics[FirstTop(prompt)].primary_agents

\* a prompt two types score highest on was classified as the first of them
C21_Witness ==
  /\ Routed
  /\ TopScore(answer.prompt) > 0
  /\ \E j \in 1..Len(routing_heuristics) :
       /\ j > FirstTop(answer.prompt)
       /\ TypeScore(j, answer.prompt) = TopScore(answer.prompt)
  /\ answer.result.shared_state.prompt_type =
       routing_heuristics[FirstTop(answer.prompt)].type

\* the mean of success_rate and avg_confidence of an agent in the scorecard
\* routed with (0.8 each when the scorecard does not give it), in thousandths
MeanScore(agent_name) ==
  LET file   == answer.scorecard
      rated  == IF file /= NoFile /\ "agents" \in DOMAIN file[1]
                THEN file[1].agents ELSE <<>>
      data   == IF agent_name \in DOMAIN rated THEN rated[agent_name] ELSE <<>>
      rate   == IF "success_rate" \in DOMAIN data THEN data.success_rate ELSE 80
      conf   == IF "avg_confidence" \in DOMAIN data THEN data.avg_confidence ELSE 80
  IN  5 * (rate + conf)

DeclaredFallback(prompt_type) ==
  LET h == CHOOSE k \in 1..Len(routing_heuristics) :
             routing_heuristics[k].type = prompt_type
  IN  routing_heuristics[h].fallback_agents

\* C22: with a confidence under 0.5 the dispatcher selects the fixed pair
\* evaluator, vp_design as primary and the fixed pair creative_director,
\* product_navigator as fallback, whatever the type and the scorecard;
\* otherwise the primary agents are the two (or fewer) suggested agents of
\* the highest mean of success_rate and avg_confidence, highest first, and
\* the fallback agents are those the detected type declares
C22_SelectsAgents ==
  Routed =>
    LET r         == answer.result
        ss        == r.shared_state
        primary   == ss.primary_agents
        suggested == { r.suggested_agents[i] : i \in 1..Len(r.suggested_agents) }
        chosen    == { primary[i] : i \in 1..Len(primary) }
    IN  IF r.confidence < 50
        THEN /\ primary = <<"evaluator", "vp_design">>
             /\ ss.fallback_agents = <<"creative_director", "product_navigator">>
        ELSE /\ Len(primary) = (IF Cardinality(suggested) < 2
                                THEN Cardinality(suggested) ELSE 2)
             /\ Cardinality(chosen) = Len(primary)
             /\ chosen \subseteq suggested
             /\ \A i \in 1..Len(primary) : \A j \in 1..Len(primary) :
                  i < j => MeanScore(primary[i]) >= MeanScore(primary[j])
             /\ \A a \in chosen : \A b \in suggested \ chosen :
                  MeanScore(a) >= MeanScore(b)
             /\ ss.fallback_agents = DeclaredFallback(ss.prompt_type)

\* a prompt of confidence 0.5 or more was routed to the agents its type
\* suggests, the second of them first because the scorecard rates it higher
C22_Witness ==
  /\ Routed
  /\ answer.result.confidence >= 50
  /\ Len(answer.result.shared_state.primary_agents) = 2
  /\ answer.result.shared_state.primary_agents /= answer.result.suggested_agents
  /\ MeanScore(answer.result.shared_state.primary_agents[1])
       > MeanScore(answer.result.shared_state.primary_agents[2])

\* the threshold of a type: that of its heuristic, 0.7 for a type without one
ThresholdOf(prompt_type) ==
  IF \E i \in 1..Len(routing_heuristics) : routing_heuristics[i].type = prompt_type
  THEN LET h == CHOOSE k \in 1..Len(routing_heuristics) :
                  routing_heuristics[k].type = prompt_type
       IN  routing_heuristics[h].confidence_threshold
  ELSE 70

\* C30: a routing decision has fallback_needed exactly when its confidence is
\* strictly under the threshold of the detected type (0.7 for "general");
\* a decision of the low-confidence safety net (confidence under 0.5, primary
\* pair evaluator, vp_design) has fallback_needed; and no agent is both a
\* primary and a fallback agent of a decision
C30_RoutingInvariant ==
  Routed =>
    LET r  == answer.result
        ss == r.shared_state
    IN  /\ ss.fallback_needed <=> (r.confidence < ThresholdOf(ss.prompt_type))
        /\ r.confidence < 50 =>
             /\ ss.primary_agents = <<"evaluator", "vp_design">>
             /\ ss.fallback_needed
        /\ { ss.primary_agents[i] : i \in 1..Len(ss.primary_agents) }
             \cap { ss.fallback_agents[i] : i \in 1..Len(ss.fallback_agents) } = {}

\* a prompt that matches keywords of a type, with a confidence under 0.5, was
\* routed by the safety net: the fixed primary pair, and fallback is needed
C30_Witness ==
  /\ Routed
  /\ answer.result.shared_state.prompt_type /= "general"
  /\ answer.result.confidence > 0
  /\ answer.result.confidence < 50
  /\ answer.result.shared_state.primary_agents = <<"evaluator", "vp_design">>
  /\ answer.result.shared_state.fallback_needed

====
